---------------------------- MODULE Spec2Model ----------------------------
(***************************************************************************)
(* A model of the iTrading dashboard's client-side core:                   *)
(*   - the form-validation hook   (src/src/hooks/useFormValidation.ts)     *)
(*   - the Brokers and Posts list pages (src/src/pages/Brokers.tsx,        *)
(*     src/src/pages/Posts.tsx) on top of the list filtering hooks.        *)
(*   - BrokerForm's use of the hook and the pages' save, delete and        *)
(*     visibility handlers (components/features/brokers/BrokerForm.tsx).   *)
(* The validation utilities (utils/validation) and the filtering hooks     *)
(* (useBrokersFiltering, usePostsFiltering) are modelled from the          *)
(* specification; everything else is translated from the sources.          *)
(***************************************************************************)
EXTENDS Integers, Sequences, FiniteSets, TLC

VARIABLES
  \* ---- useFormValidation -------------------------------------------------
  data,              \* useState data            (useFormValidation.ts:63)
  dataRef,           \* dataRef.current          (useFormValidation.ts:59,69)
  errors,            \* useState errors          (useFormValidation.ts:64)
  touched,           \* useState touched         (useFormValidation.ts:65)
  isValidating,      \* useState isValidating    (useFormValidation.ts:66)
  options,           \* validateOnBlur/Change/Submit (useFormValidation.ts:51-53)
  inFlight,          \* onSubmit promises awaited by handleSubmit (:215)
  \* ---- Brokers / Posts list page ------------------------------------------
  page,              \* which page this is: "brokers" or "posts"
  records,           \* brokers (Brokers.tsx:25) / displayPosts (Posts.tsx:75)
  filterState,       \* the filtering hook's state (Brokers.tsx:34)
  inputFocused,      \* the page-number input has the focus
  isModalOpen,       \* useState isModalOpen (Brokers.tsx:45)
  confirmDialog,     \* confirmDialog (Brokers.tsx:50) / deleteConfirm (Posts.tsx:94)
  \* ---- saving a record: the modal's form and the page's handleSubmit ------
  pending,           \* state updaters queued by updateField until the render
  editingBroker,     \* editingBroker (Brokers.tsx:46) / editingPost (Posts.tsx:93)
  logoImage,         \* logoImage of the form (BrokerForm.tsx:46)
  saves,             \* the running calls of the page's handleSubmit
  finished,          \* the call of handleSubmit that finished last
  images,            \* the rows of the remote images table
  hidden,            \* the records whose is_visible is false
  \* ---- the remote database ------------------------------------------------
  tables,            \* the ids of the rows of brokers, posts, products, users
  stored,            \* the rows of broker_account_types
  \* ---- what the page has fetched -----------------------------------------
  loaded,            \* images, the data of the images query (Brokers.tsx:203)
  user,              \* user of the auth store is not null (Posts.tsx:67)
  \* ---- a modal with an open / close animation ----------------------------
  view,              \* ImageUploadModal / PostViewModal and its isOpen prop
  \* ---- handlers of the hook called before the render ---------------------
  called,            \* the handleBlur / handleSubmit call awaiting the render
  \* ---- history ------------------------------------------------------------
  last               \* the handler that ran last

formVars == <<data, dataRef, errors, touched, isValidating, options, inFlight>>

listVars == <<page, records, filterState, inputFocused, isModalOpen,
              confirmDialog>>

flowVars == <<pending, editingBroker, logoImage, saves, finished, images,
              hidden>>

remoteVars == <<tables, stored>>

outerVars == <<remoteVars, loaded, user, view, called>>

vars == <<formVars, listVars, flowVars, outerVars, last>>

(***************************************************************************)
(* Bounds                                                                  *)
(***************************************************************************)
\* longest text a form field is given
MaxLen == 2
\* onSubmit promises that may be pending at once
MaxInFlight == 1
\* most records a list page holds
MaxRecords == 4
\* most updateField calls between two renders
MaxPending == 3
\* largest page size the page-size selector offers
MaxPageSize == 2
\* most records and largest page size of the page-arithmetic walk
PagingMaxRecords == 25
PagingMaxPageSize == 10

\* What the history variable records of a step: the handler that ran, for
\* the handlers a property speaks of ("other" for the rest), and the page
\* it started from, for the handlers that may move the page.
Did(op) == [op |-> op, from |-> 0, field |-> ""]

\* the same for a handler bound to one field of a form
DidTo(op, field) == [op |-> op, from |-> 0, field |-> field]

(***************************************************************************)
(* Saving a record: what the form and the page hold before the first save. *)
(***************************************************************************)
\* logoImage / thumbnailImage of the form: null, or an image with the table
\* and the record it names and, after an upload, the uploaded file
NoImage == [present |-> FALSE, file |-> FALSE, table_name |-> "",
            record_id |-> 0, shown |-> FALSE]

\* no call of handleSubmit has finished
NoSave == [outcome |-> "none"]

\* an animated modal that has not been opened: the useState defaults of
\* ImageUploadModal (part_002:30-33, 141-142); `upload` is the position of
\* the running handleUpload, `timers` the pending setTimeout callbacks
NoView == [component |-> "ImageUploadModal", isOpen |-> FALSE,
           isVisible |-> FALSE, isAnimating |-> FALSE, isUploading |-> FALSE,
           selectedFile |-> FALSE, reading |-> FALSE, preview |-> FALSE,
           altText |-> "", upload |-> "idle", timers |-> <<>>]

\* no handleBlur / handleSubmit call awaits the render; `read` is the
\* dataRef.current a call has read
NoCall == [op |-> "none", field |-> "", read |-> [k \in {} |-> ""]]

\* the tables that carry the trigger (on_broker_deleted, on_post_deleted,
\* on_product_deleted, on_user_avatar_deleted)
CascadingTables == {"brokers", "posts", "products", "users"}

\* the remote tables as the pages' models leave them: not looked at
NoRows == [t \in CascadingTables |-> {}]

InitOuter ==
  /\ tables = NoRows
  /\ stored = {}
  /\ loaded = {}
  /\ user = TRUE
  /\ view = NoView
  /\ called = NoCall

InitFlow ==
  /\ pending = <<>>
  /\ editingBroker = 0
  /\ logoImage = NoImage
  /\ saves = <<>>
  /\ finished = NoSave
  /\ images = {}
  /\ hidden = {}
  /\ InitOuter

(***************************************************************************)
(* JavaScript values held by a form field: a string (a sequence of         *)
(* characters), a number, a boolean, null, undefined or NaN.  Every value  *)
(* is a record of one shape; the parts a kind does not use are blank.      *)
(***************************************************************************)
JsString(text) == [kind |-> "string", text |-> text, num |-> 0]

JsNumber(n) == [kind |-> "number", text |-> <<>>, num |-> n]

JsBoolean(b) == [kind |-> "boolean", text |-> <<>>, num |-> IF b THEN 1 ELSE 0]

JsNull == [kind |-> "null", text |-> <<>>, num |-> 0]

JsUndefined == [kind |-> "undefined", text |-> <<>>, num |-> 0]

JsNaN == [kind |-> "NaN", text |-> <<>>, num |-> 0]

(***************************************************************************)
(* Form values: the texts typed into the form's fields.                    *)
(***************************************************************************)
Str(n) == JsString([i \in 1..n |-> "a"])

Values == {Str(n) : n \in 0..MaxLen}

\* The texts the free-text field "note" is given: empty or not.
NoteValues == {Str(0), Str(1)}

\* The fields of the form record; "note" has no rule in the schema.
Fields == {"name", "description", "note"}

\* A rule without a limit carries NoLimit.
NoLimit == -1

\* The schema handed to the hook: BrokerForm's rules for name and
\* description, with the lengths scaled down to the model's texts.
schema ==
  [name        |-> [required |-> TRUE,  minLength |-> 2, maxLength |-> 2,
                    message |-> "invalid"],
   description |-> [required |-> FALSE, minLength |-> 2, maxLength |-> NoLimit,
                    message |-> "invalid"]]

SchemaFields == DOMAIN schema

FormInitialData == [f \in Fields |-> Str(0)]

FieldValues(f) == IF f = "note" THEN NoteValues ELSE Values

\* Records a caller resets the form to: the initial one and a saved broker.
ResetData ==
  {FormInitialData, [name |-> Str(2), description |-> Str(2), note |-> Str(1)]}

\* Messages a caller passes to setError; the empty text is a string too.
SetErrorMessages == {"", "invalid"}

\* The options the hook is built with: the three flags and initialData.
Options(blur, change, submit) ==
  [validateOnBlur |-> blur, validateOnChange |-> change,
   validateOnSubmit |-> submit, initialData |-> FormInitialData]

\* The option sets the hook is built with: BrokerForm's (blur only, with
\* the default validate-on-submit) and two more, so that every flag is met
\* both enabled and disabled.
OptionSets ==
  {Options(TRUE, FALSE, TRUE), Options(FALSE, TRUE, TRUE),
   Options(TRUE, TRUE, FALSE)}

validateOnBlur == options.validateOnBlur
validateOnChange == options.validateOnChange
validateOnSubmit == options.validateOnSubmit
initialData == options.initialData

(***************************************************************************)
(* utils/validation: validateField and validateForm.                       *)
(***************************************************************************)
IsEmpty(value) ==
  \/ value.kind \in {"null", "undefined"}
  \/ value.kind = "string" /\ Len(value.text) = 0

RuleHolds(value, rule) ==
  IF IsEmpty(value) THEN ~rule.required
  ELSE /\ (rule.minLength # NoLimit => Len(value.text) >= rule.minLength)
       /\ (rule.maxLength # NoLimit => Len(value.text) <= rule.maxLength)

validateField(value, rule) ==
  IF RuleHolds(value, rule)
    THEN [isValid |-> TRUE, error |-> ""]
    ELSE [isValid |-> FALSE, error |-> rule.message]

validateForm(d, sch) ==
  LET bad == {f \in DOMAIN sch : ~validateField(d[f], sch[f]).isValid}
  IN  [isValid |-> bad = {},
       errors  |-> [f \in bad |-> validateField(d[f], sch[f]).error]]

(***************************************************************************)
(* Object helpers: a JavaScript object is a function on its keys.          *)
(***************************************************************************)
\* { ...obj, [key]: value }
Put(obj, key, value) ==
  [k \in (DOMAIN obj) \cup {key} |-> IF k = key THEN value ELSE obj[k]]

\* delete obj[key]
Delete(obj, key) == [k \in (DOMAIN obj) \ {key} |-> obj[k]]

EmptyObject == [k \in {} |-> ""]

\* if (obj[key]) for a map of strings: the key is there and its text is
\* not empty
Truthy(obj, key) == key \in DOMAIN obj /\ obj[key] # ""

(***************************************************************************)
(* Computed values                                                         *)
(***************************************************************************)
isValid_NoMessage == \A f \in DOMAIN errors : errors[f] = ""

\* Object.keys(errors).length === 0
isValid == DOMAIN errors = {}

(***************************************************************************)
(* State setters of the hook, as updates of the error map                  *)
(***************************************************************************)
\* updateField's first setErrors: drop the field's error if there is one
ClearOnChange(prev, field) ==
  IF Truthy(prev, field) THEN Delete(prev, field) ELSE prev

\* updateField's validate-on-change branch
ValidateOnChangeErrors(prev, field, value) ==
  IF validateOnChange /\ field \in SchemaFields
    THEN LET result == validateField(value, schema[field])
         IN  IF ~result.isValid /\ result.error # ""
               THEN Put(prev, field, result.error)
               ELSE prev
    ELSE prev

\* what validateFieldFn returns: valid without a look at the value when the
\* schema has no rule for the field, the rule's result otherwise
validateFieldResult(field) ==
  IF field \notin SchemaFields THEN [isValid |-> TRUE, error |-> ""]
  ELSE validateField(dataRef[field], schema[field])

\* a validateFieldFn for which a field without a rule fails
ValidateFieldErrors_MissingRuleFails(prev, field) ==
  IF field \notin SchemaFields THEN Put(prev, field, "invalid")
  ELSE LET result == validateField(dataRef[field], schema[field])
       IN  IF ~result.isValid /\ result.error # ""
             THEN Put(prev, field, result.error)
             ELSE Delete(prev, field)

\* validateFieldFn's effect on the error map
ValidateFieldErrors(prev, field) ==
  IF field \notin SchemaFields THEN prev
  ELSE LET result == validateField(dataRef[field], schema[field])
       IN  IF ~result.isValid /\ result.error # ""
             THEN Put(prev, field, result.error)
             ELSE Delete(prev, field)

\* a handleBlur that validates whatever validate-on-blur says
BlurErrors_IgnoresOption(prev, field) == ValidateFieldErrors(prev, field)

\* handleBlur validates the field if validate-on-blur is enabled
BlurErrors(prev, field) ==
  IF validateOnBlur THEN ValidateFieldErrors(prev, field) ELSE prev

\* a handleSubmit that validates but goes on to onSubmit all the same
SubmitAborts_Never == FALSE

\* handleSubmit stops before onSubmit when validate-on-submit finds errors
SubmitAborts == validateOnSubmit /\ ~validateForm(dataRef, schema).isValid

\* a failed submit that marks only the fields that failed
allTouched_OnlyFailed ==
  [f \in DOMAIN validateForm(dataRef, schema).errors |-> TRUE]

\* the touched map a failed submit leaves
allTouched == [f \in SchemaFields |-> TRUE]

(***************************************************************************)
(* Actions of the hook.  A handler runs to its end and React renders the   *)
(* component again before the next event: the render assigns               *)
(* dataRef.current = data (line 69).                                       *)
(***************************************************************************)
updateField(field, value) ==
  /\ data' = [data EXCEPT ![field] = value]
  /\ dataRef' = data'
  /\ errors' = ValidateOnChangeErrors(ClearOnChange(errors, field), field, value)
  /\ last' = Did("other")
  /\ UNCHANGED <<listVars, flowVars, outerVars>>
  /\ UNCHANGED <<touched, isValidating, options, inFlight>>

validateFieldFn(field) ==
  /\ errors' = ValidateFieldErrors(errors, field)
  /\ last' = Did("other")
  /\ UNCHANGED <<listVars, flowVars, outerVars>>
  /\ UNCHANGED <<data, dataRef, touched, isValidating, options, inFlight>>

validateFormFn ==
  /\ errors' = validateForm(dataRef, schema).errors
  /\ isValidating' = FALSE
  /\ last' = Did("other")
  /\ UNCHANGED <<listVars, flowVars, outerVars>>
  /\ UNCHANGED <<data, dataRef, touched, options, inFlight>>

setFieldTouched(field, isTouched) ==
  /\ touched' = Put(touched, field, isTouched)
  /\ last' = Did("other")
  /\ UNCHANGED <<listVars, flowVars, outerVars>>
  /\ UNCHANGED <<data, dataRef, errors, isValidating, options, inFlight>>

setError(field, error) ==
  /\ errors' = Put(errors, field, error)
  /\ last' = Did("other")
  /\ UNCHANGED <<listVars, flowVars, outerVars>>
  /\ UNCHANGED <<data, dataRef, touched, isValidating, options, inFlight>>

clearError(field) ==
  /\ errors' = Delete(errors, field)
  /\ last' = Did("other")
  /\ UNCHANGED <<listVars, flowVars, outerVars>>
  /\ UNCHANGED <<data, dataRef, touched, isValidating, options, inFlight>>

clearErrors ==
  /\ errors' = EmptyObject
  /\ last' = Did("other")
  /\ UNCHANGED <<listVars, flowVars, outerVars>>
  /\ UNCHANGED <<data, dataRef, touched, isValidating, options, inFlight>>

reset(newData) ==
  /\ data' = newData
  /\ dataRef' = data'
  /\ errors' = EmptyObject
  /\ touched' = EmptyObject
  /\ isValidating' = FALSE
  /\ last' = Did("other")
  /\ UNCHANGED <<listVars, flowVars, outerVars>>
  /\ UNCHANGED <<options, inFlight>>

handleBlur(field) ==
  /\ touched' = Put(touched, field, TRUE)
  /\ errors' = BlurErrors(errors, field)
  /\ last' = Did("handleBlur")
  /\ UNCHANGED <<listVars, flowVars, outerVars>>
  /\ UNCHANGED <<data, dataRef, isValidating, options, inFlight>>

handleSubmit ==
  /\ inFlight < MaxInFlight
  /\ IF SubmitAborts
       THEN /\ errors' = validateForm(dataRef, schema).errors
            /\ isValidating' = FALSE
            /\ touched' = allTouched
            /\ last' = Did("handleSubmit:aborted")
            /\ UNCHANGED inFlight
       ELSE /\ errors' = IF validateOnSubmit
                           THEN validateForm(dataRef, schema).errors
                           ELSE errors
            /\ isValidating' = TRUE
            /\ inFlight' = inFlight + 1
            /\ last' = Did("handleSubmit:onSubmit")
            /\ UNCHANGED touched
  /\ UNCHANGED <<listVars, flowVars, outerVars>>
  /\ UNCHANGED <<data, dataRef, options>>

\* the awaited onSubmit settles: the finally block of handleSubmit
SubmitSettled ==
  /\ inFlight > 0
  /\ inFlight' = inFlight - 1
  /\ isValidating' = FALSE
  /\ last' = Did("other")
  /\ UNCHANGED <<listVars, flowVars, outerVars>>
  /\ UNCHANGED <<data, dataRef, errors, touched, options>>

(***************************************************************************)
(* Brokers and Posts list pages (pages/Brokers.tsx, pages/Posts.tsx).      *)
(* Both pages keep search, filter, sort and pagination state in a          *)
(* filtering hook (useBrokersFiltering / usePostsFiltering) whose code is  *)
(* not part of the sources; the hook is modelled from its specification,   *)
(* the pages' handlers and JSX from their code.                            *)
(***************************************************************************)
Pages == {"brokers", "posts"}

RecordIds == 1..MaxRecords

\* Attributes of the record with a given id.  The lists are told apart by
\* their ids; what the filters read is a function of the id.
Name(id) == IF id % 2 = 1 THEN <<"A", "b">> ELSE <<"b", "c">>

Status(id) == IF id % 3 = 0 THEN "draft" ELSE "published"

Type(id) == IF (id \div 2) % 2 = 0 THEN "news" ELSE "event"

SortKey(id, column) == IF column = "name" THEN id % 2 ELSE id

\* The texts typed into the search box.
SearchTerms == {<<>>, <<"a">>}

StatusFilters == {"all", "draft", "published"}

\* the ids of POST_TAB_CONFIGS; privacy_policy lists what terms_of_use
\* lists in the model (no post), and is left out
Tabs == {"all", "news", "event", "terms_of_use"}

SortColumns == {"name", "created_at"}

PageSizes == 1..MaxPageSize

\* The texts typed into the page-number input.
PageTexts ==
  { <<>>, <<"0">>, <<"1">>, <<"2">>, <<"3">>, <<"9">>, <<"x">>,
    <<"2", "x">>, <<"-", "1">>, <<" ", "2">>, <<"1", ".", "5">> }

(***************************************************************************)
(* JavaScript conversions used by the page-number input.                   *)
(***************************************************************************)
DigitValue(c) ==
  CASE c = "0" -> 0 [] c = "1" -> 1 [] c = "2" -> 2 [] c = "3" -> 3
    [] c = "4" -> 4 [] c = "5" -> 5 [] c = "6" -> 6 [] c = "7" -> 7
    [] c = "8" -> 8 [] c = "9" -> 9
    [] c \in {"a", "A"} -> 10 [] c \in {"b", "B"} -> 11
    [] c \in {"c", "C"} -> 12 [] c \in {"d", "D"} -> 13
    [] c \in {"e", "E"} -> 14 [] c \in {"f", "F"} -> 15
    [] OTHER -> 36

DigitChar(d) ==
  CASE d = 0 -> "0" [] d = 1 -> "1" [] d = 2 -> "2" [] d = 3 -> "3"
    [] d = 4 -> "4" [] d = 5 -> "5" [] d = 6 -> "6" [] d = 7 -> "7"
    [] d = 8 -> "8" [] d = 9 -> "9"

RECURSIVE SkipSpaces(_, _)
SkipSpaces(s, i) ==
  IF i <= Len(s) /\ s[i] = " " THEN SkipSpaces(s, i + 1) ELSE i

\* the longest run of digits of the radix from position i: its value and
\* the position after it
RECURSIVE ScanDigits(_, _, _, _)
ScanDigits(s, i, radix, acc) ==
  IF i <= Len(s) /\ DigitValue(s[i]) < radix
    THEN ScanDigits(s, i + 1, radix, acc * radix + DigitValue(s[i]))
    ELSE [value |-> acc, next |-> i]

NaN == [nan |-> TRUE, value |-> 0]

\* parseInt(string): leading white space, an optional sign, an optional 0x
\* prefix, then the longest prefix of digits; NaN if there is no digit.
parseInt(s) ==
  LET i0    == SkipSpaces(s, 1)
      neg   == i0 <= Len(s) /\ s[i0] = "-"
      i1    == IF i0 <= Len(s) /\ s[i0] \in {"-", "+"} THEN i0 + 1 ELSE i0
      hex   == i1 + 1 <= Len(s) /\ s[i1] = "0" /\ s[i1 + 1] \in {"x", "X"}
      radix == IF hex THEN 16 ELSE 10
      i2    == IF hex THEN i1 + 2 ELSE i1
      r     == ScanDigits(s, i2, radix, 0)
  IN  IF r.next = i2 THEN NaN
      ELSE [nan |-> FALSE, value |-> IF neg THEN 0 - r.value ELSE r.value]

\* Number.prototype.toString() of a page number
RECURSIVE toString(_)
toString(n) ==
  IF n < 10 THEN <<DigitChar(n)>>
  ELSE toString(n \div 10) \o <<DigitChar(n % 10)>>

\* String.prototype.toLowerCase() on the letters the model uses
LowerChar(c) == IF c = "A" THEN "a" ELSE IF c = "B" THEN "b" ELSE c

toLowerCase(s) == [i \in 1..Len(s) |-> LowerChar(s[i])]

\* String.prototype.includes()
Includes(s, t) ==
  \E i \in 0..(Len(s) - Len(t)) : \A j \in 1..Len(t) : s[i + j] = t[j]

(***************************************************************************)
(* The filtering hook: filter, sort, paginate.                             *)
(***************************************************************************)
DefaultFilterState ==
  [searchTerm     |-> <<>>,
   filterStatus   |-> "all",
   activeTab      |-> "all",
   sortColumn     |-> "created_at",
   sortDirection  |-> "desc",
   currentPage    |-> 1,
   itemsPerPage   |-> MaxPageSize,
   pageInputValue |-> <<"1">>]

MatchesSearch(id, fs) ==
  Includes(toLowerCase(Name(id)), toLowerCase(fs.searchTerm))

MatchesStatus(id, fs) ==
  fs.filterStatus = "all" \/ Status(id) = fs.filterStatus

MatchesTab(id, fs) ==
  fs.activeTab = "all" \/ Type(id) = fs.activeTab

Filtered(recs, fs) ==
  {id \in recs : MatchesSearch(id, fs) /\ MatchesStatus(id, fs)
                 /\ MatchesTab(id, fs)}

\* the comparator of the sort: by the column's key in the chosen direction,
\* equal keys in list order
Before(a, b, fs) ==
  LET ka == SortKey(a, fs.sortColumn)
      kb == SortKey(b, fs.sortColumn)
  IN  IF ka = kb THEN a < b
      ELSE IF fs.sortDirection = "asc" THEN ka < kb ELSE ka > kb

RECURSIVE Sorted(_, _)
Sorted(S, fs) ==
  IF S = {} THEN <<>>
  ELSE LET first == CHOOSE a \in S : \A b \in S \ {a} : Before(a, b, fs)
       IN  <<first>> \o Sorted(S \ {first}, fs)

FilteredAndSorted(recs, fs) == Sorted(Filtered(recs, fs), fs)

Max(a, b) == IF a >= b THEN a ELSE b

Min(a, b) == IF a <= b THEN a ELSE b

Ceil(n, d) == (n + d - 1) \div d

TotalPages_NoMinimum(recs, fs) ==
  Ceil(Cardinality(Filtered(recs, fs)), fs.itemsPerPage)

\* totalPages: ceil(filteredCount / pageSize), at least 1
TotalPages(recs, fs) ==
  Max(1, Ceil(Cardinality(Filtered(recs, fs)), fs.itemsPerPage))

\* the slice of the filtered, sorted list for the current page
Paginated(recs, fs) ==
  LET all  == FilteredAndSorted(recs, fs)
      from == (fs.currentPage - 1) * fs.itemsPerPage + 1
      to   == Min(fs.currentPage * fs.itemsPerPage, Len(all))
  IN  SubSeq(all, from, to)

\* setSearchTerm: stores the term and resets the page to 1
setSearchTerm(fs, term) ==
  [fs EXCEPT !.searchTerm = term, !.currentPage = 1,
             !.pageInputValue = toString(1)]

\* handleTabChange: stores the tab and resets the page to 1
handleTabChange(fs, tab) ==
  [fs EXCEPT !.activeTab = tab, !.currentPage = 1,
             !.pageInputValue = toString(1)]

\* setFilterStatus, setItemsPerPage, setPageInputValue: plain setters
setFilterStatus(fs, status) == [fs EXCEPT !.filterStatus = status]

setItemsPerPage(fs, size) == [fs EXCEPT !.itemsPerPage = size]

setPageInputValue(fs, text) == [fs EXCEPT !.pageInputValue = text]

Flip(direction) == IF direction = "asc" THEN "desc" ELSE "asc"

handleSort_AlwaysAscending(fs, column) ==
  [fs EXCEPT !.sortColumn = column, !.sortDirection = "asc"]

\* handleSort: the same column flips the direction, another column is
\* selected ascending
handleSort(fs, column) ==
  IF fs.sortColumn = column
    THEN [fs EXCEPT !.sortDirection = Flip(fs.sortDirection)]
    ELSE [fs EXCEPT !.sortColumn = column, !.sortDirection = "asc"]

\* handlePageChange: navigation clamps to [1, totalPages]; the page becomes
\* the current page and the text of the page input.  tp is the totalPages
\* of the render the handler was created in.
handlePageChange(fs, tp, newPage) ==
  LET target == Max(1, Min(newPage, tp))
  IN  [fs EXCEPT !.currentPage = target,
                 !.pageInputValue = toString(target)]

(***************************************************************************)
(* What the page component reads at render.                                *)
(***************************************************************************)
\* the values the pagination footer passes to 'pagination.showingRows';
\* recs is brokers / posts, the list as fetched, before any filter
startItem(fs) == (fs.currentPage - 1) * fs.itemsPerPage + 1

endItem(recs, fs) == Min(fs.currentPage * fs.itemsPerPage, Cardinality(recs))

total(recs) == Cardinality(recs)

currentPage == filterState.currentPage

totalPages == TotalPages(records, filterState)

paginated == Paginated(records, filterState)

\* the records of the rows the table shows
VisibleRows == {paginated[i] : i \in 1..Len(paginated)}

ClosedDialog == [isOpen |-> FALSE, id |-> 0, isDeleting |-> FALSE]

\* The modal and the confirm dialog cover the page (fixed inset-0 overlay);
\* a click outside the focused page input blurs it first.
PageIdle == ~isModalOpen /\ ~confirmDialog.isOpen /\ ~inputFocused

\* a Posts page without the checks of the session
LoginRequired_Never == FALSE

\* `if (!user) { alert(...); return }` of handleEdit, handleDelete and the
\* create button of the Posts page; the handlers of the Brokers page have
\* no such check
LoginRequired == page = "posts" /\ ~user

\* the pagination controls are rendered only with more than one page
ControlsShown == totalPages > 1

Went(op) == [op |-> op, from |-> currentPage, field |-> ""]

(***************************************************************************)
(* Event handlers written in the pages' JSX.                               *)
(***************************************************************************)
onStatusFilterChange_NoPageReset(fs, tp, value) == setFilterStatus(fs, value)

\* FilterDropdown onChange: setFilterStatus(value); handlePageChange(1)
onStatusFilterChange(fs, tp, value) ==
  handlePageChange(setFilterStatus(fs, value), tp, 1)

onItemsPerPageChange_NoPageReset(fs, tp, value) == setItemsPerPage(fs, value)

\* PaginationSelector onChange: setItemsPerPage(value); handlePageChange(1)
onItemsPerPageChange(fs, tp, value) ==
  handlePageChange(setItemsPerPage(fs, value), tp, 1)

\* !isNaN(page) && page >= 1 && page <= totalPages
PageAccepted(p, tp) == ~p.nan /\ p.value >= 1 /\ p.value <= tp

\* the body of the page input's onBlur and of its Enter key handler
CommitPageInput(fs, tp, text) ==
  LET p == parseInt(text)
  IN  IF PageAccepted(p, tp)
        THEN handlePageChange(fs, tp, p.value)
        ELSE setPageInputValue(fs, toString(fs.currentPage))

AfterDelete_StaysOnPage(fs, tp, pageLength) == fs

\* after the awaited delete: step back a page if the page held one record
AfterDelete(fs, tp, pageLength) ==
  IF pageLength = 1 /\ fs.currentPage > 1
    THEN handlePageChange(fs, tp, fs.currentPage - 1)
    ELSE fs

(***************************************************************************)
(* Actions of a list page.                                                 *)
(***************************************************************************)
SearchChange(term) ==
  /\ PageIdle
  /\ term # filterState.searchTerm
  /\ filterState' = setSearchTerm(filterState, term)
  /\ last' = Went("search")
  /\ UNCHANGED <<formVars, flowVars, outerVars, page, records, inputFocused, isModalOpen,
                 confirmDialog>>

StatusFilterChange(value) ==
  /\ page = "posts"
  /\ PageIdle
  /\ filterState' = onStatusFilterChange(filterState, totalPages, value)
  /\ last' = Went("statusFilter")
  /\ UNCHANGED <<formVars, flowVars, outerVars, page, records, inputFocused, isModalOpen,
                 confirmDialog>>

TabChange(tab) ==
  /\ page = "posts"
  /\ PageIdle
  /\ filterState' = handleTabChange(filterState, tab)
  /\ last' = Went("tab")
  /\ UNCHANGED <<formVars, flowVars, outerVars, page, records, inputFocused, isModalOpen,
                 confirmDialog>>

ItemsPerPageChange(value) ==
  /\ PageIdle
  /\ filterState' = onItemsPerPageChange(filterState, totalPages, value)
  /\ last' = Went("itemsPerPage")
  /\ UNCHANGED <<formVars, flowVars, outerVars, page, records, inputFocused, isModalOpen,
                 confirmDialog>>

Sort(column) ==
  /\ PageIdle
  /\ filterState' = handleSort(filterState, column)
  /\ last' = Did("sort")
  /\ UNCHANGED <<formVars, flowVars, outerVars, page, records, inputFocused, isModalOpen,
                 confirmDialog>>

PreviousPage ==
  /\ PageIdle
  /\ ControlsShown
  /\ currentPage # 1
  /\ filterState' = handlePageChange(filterState, totalPages, currentPage - 1)
  /\ last' = Did("previousPage")
  /\ UNCHANGED <<formVars, flowVars, outerVars, page, records, inputFocused, isModalOpen,
                 confirmDialog>>

NextPage ==
  /\ PageIdle
  /\ ControlsShown
  /\ currentPage # totalPages
  /\ filterState' = handlePageChange(filterState, totalPages, currentPage + 1)
  /\ last' = Did("nextPage")
  /\ UNCHANGED <<formVars, flowVars, outerVars, page, records, inputFocused, isModalOpen,
                 confirmDialog>>

\* typing in the page input: onChange={e => setPageInputValue(e.target.value)}
PageInputChange(text) ==
  /\ ~isModalOpen /\ ~confirmDialog.isOpen
  /\ ControlsShown
  /\ text # filterState.pageInputValue
  /\ filterState' = setPageInputValue(filterState, text)
  /\ inputFocused' = TRUE
  /\ last' = Did("pageInputChange")
  /\ UNCHANGED <<formVars, flowVars, outerVars, page, records, isModalOpen, confirmDialog>>

PageInputBlur ==
  /\ inputFocused
  /\ filterState' = CommitPageInput(filterState, totalPages,
                                    filterState.pageInputValue)
  /\ inputFocused' = FALSE
  /\ last' = Did("pageInputBlur")
  /\ UNCHANGED <<formVars, flowVars, outerVars, page, records, isModalOpen, confirmDialog>>

PageInputEnter ==
  /\ inputFocused
  /\ filterState' = CommitPageInput(filterState, totalPages,
                                    filterState.pageInputValue)
  /\ last' = Did("pageInputEnter")
  /\ UNCHANGED <<formVars, flowVars, outerVars, page, records, inputFocused, isModalOpen,
                 confirmDialog>>

\* the "add" button
OpenCreate ==
  /\ PageIdle
  /\ isModalOpen' = ~LoginRequired
  /\ last' = Did(IF LoginRequired THEN "loginRequired" ELSE "openCreate")
  /\ UNCHANGED <<formVars, flowVars, outerVars, page, records, filterState, inputFocused,
                 confirmDialog>>

\* handleCloseModal; the modal takes the form, and with it the form's
\* logoImage, off the page
handleCloseModal ==
  /\ isModalOpen
  /\ inFlight = 0
  /\ isModalOpen' = FALSE
  /\ editingBroker' = 0
  /\ logoImage' = NoImage
  /\ last' = Did("handleCloseModal")
  /\ UNCHANGED <<formVars, page, records, filterState, inputFocused,
                 confirmDialog>>
  /\ UNCHANGED <<outerVars, pending, saves, finished, images, hidden>>

\* handleSubmit of the page for a new record, with the list refresh that
\* follows it.  outcome: the create call failed; a later call failed after
\* the record was created; everything was saved.
SubmitCreate(id, outcome) ==
  /\ isModalOpen
  /\ id \notin records
  /\ IF outcome = "createFailed"
       THEN UNCHANGED <<records, filterState>>
       ELSE /\ records' = records \cup {id}
            /\ filterState' = handlePageChange(filterState, totalPages, 1)
  /\ isModalOpen' = (outcome # "saved")
  /\ last' = Went("create:" \o outcome)
  /\ UNCHANGED <<formVars, flowVars, outerVars, page, inputFocused, confirmDialog>>

\* the delete button of a row of the table
handleDelete(id) ==
  /\ PageIdle
  /\ confirmDialog' =
       IF LoginRequired THEN confirmDialog
       ELSE [isOpen |-> TRUE, id |-> id, isDeleting |-> FALSE]
  /\ last' = Did(IF LoginRequired THEN "loginRequired" ELSE "handleDelete")
  /\ UNCHANGED <<formVars, flowVars, outerVars, page, records, filterState, inputFocused,
                 isModalOpen>>

\* Cancel, the close button or the backdrop of the dialog; disabled while
\* the delete is running
handleCancelDelete ==
  /\ confirmDialog.isOpen
  /\ ~confirmDialog.isDeleting
  /\ confirmDialog' = ClosedDialog
  /\ last' = Did("handleCancelDelete")
  /\ UNCHANGED <<formVars, flowVars, outerVars, page, records, filterState, inputFocused,
                 isModalOpen>>

\* the Confirm button: the handler runs up to its await
handleConfirmDelete ==
  /\ confirmDialog.isOpen
  /\ ~confirmDialog.isDeleting
  /\ confirmDialog' = [confirmDialog EXCEPT !.isDeleting = TRUE]
  /\ last' = Did("handleConfirmDelete")
  /\ UNCHANGED <<formVars, flowVars, outerVars, page, records, filterState, inputFocused,
                 isModalOpen>>

\* a catch block that forgets the post and leaves the dialog open
AfterFailedDelete_ForgetsTarget(prev) ==
  [prev EXCEPT !.id = 0, !.isDeleting = FALSE]

\* the dialog after a failed delete: the finally block of the Brokers page
\* closes it; the catch block of the Posts page keeps it,
\* prev => ({ ...prev, isDeleting: false })
AfterFailedDelete(prev) ==
  IF page = "brokers" THEN ClosedDialog
  ELSE [prev EXCEPT !.isDeleting = FALSE]

\* the awaited delete settles and the handler runs to its end; a successful
\* delete comes with the refreshed list.  A failed delete is caught by
\* confirmDelete of the Posts page; handleConfirmDelete of the Brokers page
\* has a finally block and no catch, and the failure leaves the handler.
DeleteSettled(ok) ==
  /\ confirmDialog.isOpen
  /\ confirmDialog.isDeleting
  /\ IF ok
       THEN /\ records' = records \ {confirmDialog.id}
            /\ filterState' = AfterDelete(filterState, totalPages,
                                          Len(paginated))
            /\ confirmDialog' = ClosedDialog
            /\ last' = Went(IF filterState'.currentPage # currentPage
                              THEN "delete:ok:pageBack" ELSE "delete:ok")
       ELSE /\ UNCHANGED <<records, filterState>>
            /\ confirmDialog' = AfterFailedDelete(confirmDialog)
            /\ last' = Went(IF page = "brokers" THEN "delete:rejected"
                              ELSE "delete:failed")
  /\ UNCHANGED <<formVars, flowVars, outerVars, page, inputFocused, isModalOpen>>

InitList ==
  /\ page \in Pages
  /\ records \in SUBSET RecordIds
  /\ filterState = DefaultFilterState
  /\ inputFocused = FALSE
  /\ isModalOpen = FALSE
  /\ confirmDialog = ClosedDialog
  /\ last = Did("init")
  /\ InitFlow
  /\ data = FormInitialData
  /\ dataRef = FormInitialData
  /\ errors = EmptyObject
  /\ touched = EmptyObject
  /\ isValidating = FALSE
  /\ options = Options(TRUE, FALSE, TRUE)
  /\ inFlight = 0

NextList ==
  \/ \E term \in SearchTerms : SearchChange(term)
  \/ \E value \in StatusFilters : StatusFilterChange(value)
  \/ \E tab \in Tabs : TabChange(tab)
  \/ \E value \in PageSizes : ItemsPerPageChange(value)
  \/ \E column \in SortColumns : Sort(column)
  \/ PreviousPage
  \/ NextPage
  \/ \E text \in PageTexts : PageInputChange(text)
  \/ PageInputBlur
  \/ PageInputEnter
  \/ OpenCreate
  \/ handleCloseModal
  \/ \E id \in RecordIds :
       \E outcome \in {"createFailed", "createdOnly", "saved"} :
         SubmitCreate(id, outcome)
  \/ \E id \in VisibleRows : handleDelete(id)
  \/ handleCancelDelete
  \/ handleConfirmDelete
  \/ \E ok \in BOOLEAN : DeleteSettled(ok)

SpecList == InitList /\ [][NextList]_vars

(***************************************************************************)
(* Page arithmetic on lists of a realistic size: the list is loaded with   *)
(* up to PagingMaxRecords records and a page size up to PagingMaxPageSize, *)
(* and the pages are walked with the previous / next buttons.              *)
(***************************************************************************)
InitPaging ==
  /\ page \in Pages
  /\ \E n \in 0..PagingMaxRecords : records = 1..n
  /\ \E size \in 1..PagingMaxPageSize :
       filterState = [DefaultFilterState EXCEPT !.itemsPerPage = size]
  /\ inputFocused = FALSE
  /\ isModalOpen = FALSE
  /\ confirmDialog = ClosedDialog
  /\ last = Did("init")
  /\ InitFlow
  /\ data = FormInitialData
  /\ dataRef = FormInitialData
  /\ errors = EmptyObject
  /\ touched = EmptyObject
  /\ isValidating = FALSE
  /\ options = Options(TRUE, FALSE, TRUE)
  /\ inFlight = 0

NextPaging == PreviousPage \/ NextPage

SpecPaging == InitPaging /\ [][NextPaging]_vars

(***************************************************************************)
(* The form on its own: the hook's operations in any order.                *)
(***************************************************************************)
InitForm ==
  /\ data = FormInitialData
  /\ dataRef = FormInitialData
  /\ errors = EmptyObject
  /\ touched = EmptyObject
  /\ isValidating = FALSE
  /\ options \in OptionSets
  /\ inFlight = 0
  /\ last = Did("init")
  /\ InitFlow
  /\ page = "brokers"
  /\ records = {}
  /\ filterState = DefaultFilterState
  /\ inputFocused = FALSE
  /\ isModalOpen = FALSE
  /\ confirmDialog = ClosedDialog

NextForm ==
  \/ \E f \in Fields : \E v \in FieldValues(f) : updateField(f, v)
  \/ \E f \in Fields : validateFieldFn(f)
  \/ validateFormFn
  \/ \E f \in Fields : setFieldTouched(f, TRUE)
  \/ \E f \in Fields, e \in SetErrorMessages : setError(f, e)
  \/ \E f \in Fields : clearError(f)
  \/ clearErrors
  \/ \E d \in ResetData : reset(d)
  \/ \E f \in Fields : handleBlur(f)
  \/ handleSubmit
  \/ SubmitSettled

SpecForm == InitForm /\ [][NextForm]_vars

(***************************************************************************)
(* BrokerForm's instance of the hook (components/features/brokers/         *)
(* BrokerForm.tsx): the form record holds typed values, the inputs hand    *)
(* texts to the change handlers, and isDirty compares the JSON texts of    *)
(* the data and of the initial data.                                       *)
(***************************************************************************)
BrokerFields == {"name", "established_in", "headquarter", "description"}

\* initialData of BrokerForm
BrokerFormInitialData ==
  [name |-> JsString(<<>>), established_in |-> JsNull,
   headquarter |-> JsString(<<>>), description |-> JsString(<<>>)]

\* the options BrokerForm builds the hook with
BrokerFormOptions ==
  [validateOnBlur |-> TRUE, validateOnChange |-> FALSE,
   validateOnSubmit |-> TRUE, initialData |-> BrokerFormInitialData]

\* The records BrokerForm's effect resets the form to: the initial data
\* when a broker is created, the edited broker's columns otherwise.
BrokerResetData ==
  {BrokerFormInitialData,
   [name |-> JsString(<<"a">>), established_in |-> JsNumber(7),
    headquarter |-> JsString(<<>>), description |-> JsString(<<"a">>)]}

\* The texts typed into a text input, and the texts a number input hands
\* over: whole numbers, and for the year a number that starts with its
\* decimal point.
TextTexts == {<<>>, <<"a">>}

NumberTexts == {<<>>, <<"0">>, <<"7">>}

YearTexts == NumberTexts \cup {<<".", "5">>}

\* e.target of a change event: value, type and checked
ChangeEvents ==
  {[value |-> v, type |-> "text", checked |-> FALSE] : v \in TextTexts}
    \cup {[value |-> v, type |-> "number", checked |-> FALSE] :
            v \in NumberTexts}
    \cup {[value |-> <<"o", "n">>, type |-> "checkbox", checked |-> b] :
            b \in BOOLEAN}

\* Number(string) on the texts of NumberTexts: the empty text is 0, a text
\* of decimal digits is its value, any other text is NaN.
Number(s) ==
  IF Len(s) = 0 THEN JsNumber(0)
  ELSE IF \A i \in 1..Len(s) : DigitValue(s[i]) < 10
    THEN JsNumber(ScanDigits(s, 1, 10, 0).value)
    ELSE JsNaN

\* a handleChange that converts every text of a number input
ChangeValue_EmptyIsZero(e) ==
  IF e.type = "checkbox" THEN JsBoolean(e.checked)
  ELSE IF e.type = "number" THEN Number(e.value)
  ELSE JsString(e.value)

\* fieldValue of handleChange: the checkbox's checked flag, the number of a
\* number input (undefined for the empty text), the text otherwise
ChangeValue(e) ==
  IF e.type = "checkbox" THEN JsBoolean(e.checked)
  ELSE IF e.type = "number"
    THEN IF e.value = <<>> THEN JsUndefined ELSE Number(e.value)
  ELSE JsString(e.value)

\* value ? parseInt(value) : null
EstablishedYear(value) ==
  IF value = <<>> THEN JsNull
  ELSE LET n == parseInt(value)
       IN  IF n.nan THEN JsNaN ELSE JsNumber(n.value)

\* formData.established_in?.toString() || '': what the year input shows
EstablishedYearText(value) ==
  IF value.kind = "number" THEN toString(value.num)
  ELSE IF value.kind = "NaN" THEN <<"N", "a", "N">>
  ELSE <<>>

\* JSON.stringify, as a sequence of tokens.  The keys of an object are
\* written in the order of the record literals of the forms; a key whose
\* value is undefined is left out, NaN is written as null.
KeyOrder ==
  <<"name", "established_in", "headquarter", "description", "note">>

JSONValue(v) ==
  CASE v.kind = "string"  -> <<"\"">> \o v.text \o <<"\"">>
    [] v.kind = "number"  -> IF v.num < 0 THEN <<"-">> \o toString(0 - v.num)
                             ELSE toString(v.num)
    [] v.kind = "boolean" -> IF v.num = 1 THEN <<"true">> ELSE <<"false">>
    [] v.kind = "null"    -> <<"null">>
    [] v.kind = "NaN"     -> <<"null">>

RECURSIVE JSONMembers(_, _, _)
JSONMembers(obj, i, first) ==
  IF i > Len(KeyOrder) THEN <<>>
  ELSE LET key == KeyOrder[i]
       IN  IF key \in DOMAIN obj /\ obj[key].kind # "undefined"
             THEN (IF first THEN <<>> ELSE <<",">>)
                    \o <<"\"", key, "\"", ":">> \o JSONValue(obj[key])
                    \o JSONMembers(obj, i + 1, FALSE)
             ELSE JSONMembers(obj, i + 1, first)

JSONstringify(obj) == <<"{">> \o JSONMembers(obj, 1, TRUE) \o <<"}">>

\* isDirty, with initial data supplied
isDirty == JSONstringify(data) # JSONstringify(initialData)

\* handleChange(field)(e): the event's value, converted, goes to updateField
handleChange(field, e) ==
  LET fieldValue == ChangeValue(e)
  IN  /\ data' = [data EXCEPT ![field] = fieldValue]
      /\ dataRef' = data'
      /\ errors' = ValidateOnChangeErrors(ClearOnChange(errors, field),
                                          field, fieldValue)
      /\ last' = DidTo(IF e.type = "number" /\ e.value = <<>>
                         THEN "handleChange:number:empty"
                         ELSE "handleChange", field)
      /\ UNCHANGED <<listVars, flowVars, outerVars>>
      /\ UNCHANGED <<touched, isValidating, options, inFlight>>

\* the change handler of the established-year input
handleEstablishedYearChange(value) ==
  LET year == EstablishedYear(value)
  IN  /\ data' = [data EXCEPT !["established_in"] = year]
      /\ dataRef' = data'
      /\ errors' = ValidateOnChangeErrors(
                     ClearOnChange(errors, "established_in"),
                     "established_in", year)
      /\ last' = DidTo(IF value = <<>>
                         THEN "handleEstablishedYearChange:empty"
                         ELSE "handleEstablishedYearChange",
                       "established_in")
      /\ UNCHANGED <<listVars, flowVars, outerVars>>
      /\ UNCHANGED <<touched, isValidating, options, inFlight>>

InitBrokerForm ==
  /\ data = BrokerFormInitialData
  /\ dataRef = BrokerFormInitialData
  /\ errors = EmptyObject
  /\ touched = EmptyObject
  /\ isValidating = FALSE
  /\ options = BrokerFormOptions
  /\ inFlight = 0
  /\ last = Did("init")
  /\ InitFlow
  /\ page = "brokers"
  /\ records = {}
  /\ filterState = DefaultFilterState
  /\ inputFocused = FALSE
  /\ isModalOpen = TRUE
  /\ confirmDialog = ClosedDialog

NextBrokerForm ==
  \/ \E f \in BrokerFields, e \in ChangeEvents : handleChange(f, e)
  \/ \E value \in YearTexts : handleEstablishedYearChange(value)
  \/ \E d \in BrokerResetData : reset(d)

SpecBrokerForm == InitBrokerForm /\ [][NextBrokerForm]_vars

(***************************************************************************)
(* Several updateField calls before a render.  Each call queues its state  *)
(* updaters (setDataState(prev => ...), setErrors(prev => ...)); the       *)
(* render that follows runs the queued updaters in the order of the calls, *)
(* each on the result of the one before it.                                *)
(***************************************************************************)
\* an updater that spreads the data of the render it was created in
DataUpdater_FromClosure(prev, call) == Put(data, call.field, call.value)

\* prev => ({ ...prev, [field]: value })
DataUpdater(prev, call) == Put(prev, call.field, call.value)

\* the updaters of the error map one updateField call queues
ErrorUpdater(prev, call) ==
  ValidateOnChangeErrors(ClearOnChange(prev, call.field), call.field,
                         call.value)

RECURSIVE ApplyDataUpdaters(_, _)
ApplyDataUpdaters(prev, queue) ==
  IF queue = <<>> THEN prev
  ELSE ApplyDataUpdaters(DataUpdater(prev, Head(queue)), Tail(queue))

RECURSIVE ApplyErrorUpdaters(_, _)
ApplyErrorUpdaters(prev, queue) ==
  IF queue = <<>> THEN prev
  ELSE ApplyErrorUpdaters(ErrorUpdater(prev, Head(queue)), Tail(queue))

\* updateField called in an event handler: the updaters are queued
updateFieldCall(field, value) ==
  /\ Len(pending) < MaxPending
  /\ pending' = Append(pending, [field |-> field, value |-> value])
  /\ last' = Did("updateField")
  /\ UNCHANGED <<formVars, listVars>>
  /\ UNCHANGED <<outerVars, editingBroker, logoImage, saves, finished, images, hidden>>

\* the render after the handler: the queue is run, dataRef.current = data
render ==
  /\ pending # <<>>
  /\ data' = ApplyDataUpdaters(data, pending)
  /\ dataRef' = data'
  /\ errors' = ApplyErrorUpdaters(errors, pending)
  /\ pending' = <<>>
  /\ last' = Did(IF Len(pending) > 1 THEN "render:batch" ELSE "render")
  /\ UNCHANGED <<touched, isValidating, options, inFlight>>
  /\ UNCHANGED listVars
  /\ UNCHANGED <<outerVars, editingBroker, logoImage, saves, finished, images, hidden>>

InitBatch ==
  /\ data = FormInitialData
  /\ dataRef = FormInitialData
  /\ errors = EmptyObject
  /\ touched = EmptyObject
  /\ isValidating = FALSE
  /\ options = Options(FALSE, TRUE, TRUE)
  /\ inFlight = 0
  /\ last = Did("init")
  /\ InitFlow
  /\ page = "brokers"
  /\ records = {}
  /\ filterState = DefaultFilterState
  /\ inputFocused = FALSE
  /\ isModalOpen = TRUE
  /\ confirmDialog = ClosedDialog

NextBatch ==
  \/ \E f \in Fields, v \in NoteValues : updateFieldCall(f, v)
  \/ render

SpecBatch == InitBatch /\ [][NextBatch]_vars

(***************************************************************************)
(* handleBlur and handleSubmit called before the render.  An event handler *)
(* calls updateField and then, in the same batch, handleBlur or            *)
(* handleSubmit.  Both read dataRef.current, which only the render assigns *)
(* (line 69); the state updates they make wait for the render too, behind  *)
(* the updaters of the updateField calls.                                  *)
(***************************************************************************)
\* the data once the queued updaters have run: the values written last
WrittenData == ApplyDataUpdaters(data, pending)

\* handleBlur(field) called in the running event handler
handleBlurCall(field) ==
  /\ called.op = "none"
  /\ called' = [op |-> "handleBlur", field |-> field, read |-> dataRef]
  /\ last' = DidTo("handleBlur:call", field)
  /\ UNCHANGED <<formVars, listVars, flowVars, remoteVars, loaded, user, view>>

\* handleSubmit called in the running event handler: validateFormFn reads
\* dataRef.current, and so does the call of onSubmit
handleSubmitCall ==
  /\ called.op = "none"
  /\ inFlight < MaxInFlight
  /\ called' = [op    |-> IF SubmitAborts THEN "handleSubmit:aborted"
                          ELSE "handleSubmit:onSubmit",
                field |-> "", read |-> dataRef]
  /\ inFlight' = IF SubmitAborts THEN inFlight ELSE inFlight + 1
  /\ last' = Did("handleSubmit:call")
  /\ UNCHANGED <<data, dataRef, errors, touched, isValidating, options>>
  /\ UNCHANGED <<listVars, flowVars, remoteVars, loaded, user, view>>

\* the render after the handler: the updaters of the updateField calls run,
\* then the state updates of the handleBlur / handleSubmit call
renderCalled ==
  /\ called.op # "none"
  /\ data' = WrittenData
  /\ dataRef' = data'
  /\ LET prev == ApplyErrorUpdaters(errors, pending)
     IN  errors' =
           IF called.op = "handleBlur" THEN BlurErrors(prev, called.field)
           ELSE IF validateOnSubmit THEN validateForm(dataRef, schema).errors
           ELSE prev
  /\ touched' =
       IF called.op = "handleBlur" THEN Put(touched, called.field, TRUE)
       ELSE IF called.op = "handleSubmit:aborted" THEN allTouched
       ELSE touched
  /\ isValidating' =
       IF called.op = "handleBlur" THEN isValidating
       ELSE called.op = "handleSubmit:onSubmit"
  /\ pending' = <<>>
  /\ called' = NoCall
  /\ last' = Did("render:called")
  /\ UNCHANGED <<options, inFlight, listVars, remoteVars, loaded, user, view>>
  /\ UNCHANGED <<editingBroker, logoImage, saves, finished, images, hidden>>

\* the fields the event handlers write and blur: one with a rule in the
\* schema and one without
WrittenFields == {"name", "note"}

InitRef ==
  /\ data = FormInitialData
  /\ dataRef = FormInitialData
  /\ errors = EmptyObject
  /\ touched = EmptyObject
  /\ isValidating = FALSE
  /\ options = Options(TRUE, FALSE, TRUE)
  /\ inFlight = 0
  /\ last = Did("init")
  /\ InitFlow
  /\ page = "brokers"
  /\ records = {}
  /\ filterState = DefaultFilterState
  /\ inputFocused = FALSE
  /\ isModalOpen = TRUE
  /\ confirmDialog = ClosedDialog

NextRef ==
  \/ \E f \in WrittenFields : \E v \in FieldValues(f) :
       called.op = "none" /\ updateFieldCall(f, v)
  \/ called.op = "none" /\ render
  \/ \E f \in WrittenFields : handleBlurCall(f)
  \/ handleSubmitCall
  \/ renderCalled
  \/ called.op = "none" /\ pending = <<>> /\ SubmitSettled

SpecRef == InitRef /\ [][NextRef]_vars

(***************************************************************************)
(* Saving a record.  The modal's form hands its data and its image to the  *)
(* page's handleSubmit, which saves the record, replaces the record's      *)
(* image and invalidates the list and images caches.  Each awaited remote  *)
(* call is a step of its own; several calls of handleSubmit may be under   *)
(* way.  The storage bucket and the account types (the form passes none)   *)
(* are left out.                                                           *)
(***************************************************************************)
\* The save flow is followed on a list of at most two records.  The steps
\* of a call of handleSubmit are followed with one call under way; the
\* submit button is followed with room for a second call.
SaveRecordIds == {1, 2}

OneSave == {1}

TwoSaves == {1, 2}

\* the image row the record has in the images table, as the form shows it
ExistingImage(id) ==
  IF \E r \in loaded : r.record_id = id
    THEN [present |-> TRUE, file |-> FALSE, table_name |-> page,
          record_id |-> id, shown |-> TRUE]
    ELSE NoImage

\* images.find(img => img.record_id === brokerId && img.type === 'logo'):
\* the id of the first such row of the fetched images, 0 when there is none
ExistingLogo(imgs, brokerId) ==
  LET found == {r.id : r \in {x \in imgs : x.record_id = brokerId}}
  IN  IF found = {} THEN 0
      ELSE CHOOSE id \in found : \A other \in found : id <= other

\* the ids of the rows of images: the seeded row and one more
ImageIds == {1, 2}

\* the id the database gives to a new row of images: one it has not given
\* to a row before
NewImageId(imgs) ==
  LET ids == {r.id : r \in imgs}
  IN  IF ids = {} THEN 1
      ELSE 1 + CHOOSE id \in ids : \A other \in ids : id >= other

\* the images query of the page: the logo (thumbnail) rows of the page's
\* table for the records of the visible page.  A failed select resolves
\* with data null, and the query function returns [] for it.
FetchedImages(imgs, fetched) ==
  IF fetched
    THEN {r \in imgs : r.table_name = page /\ r.record_id \in VisibleRows}
    ELSE {}

\* handleLogoUpload: the uploaded image names the form's table and the
\* edited record, '' (0) while the record is new
UploadedImage ==
  [present |-> TRUE, file |-> TRUE, table_name |-> page,
   record_id |-> editingBroker, shown |-> logoImage.shown]

\* a call of handleSubmit up to its first await, with what its closure
\* holds: editingBroker, the form's image, the images the page has loaded
NewSave(submitted) ==
  [pc |-> "record", accountTypes |-> submitted, editing |-> editingBroker, brokerId |-> editingBroker,
   image |-> logoImage,
   existing |-> editingBroker # 0 /\ ExistingLogo(loaded, editingBroker) # 0,
   existingId |-> IF editingBroker = 0 THEN 0
                  ELSE ExistingLogo(loaded, editingBroker),
   hadLogo |-> editingBroker # 0
                 /\ \E r \in images :
                      r.table_name = page /\ r.record_id = editingBroker,
   todo |-> <<>>, failed |-> FALSE, trace |-> <<>>]

\* the remote calls on the record's image, in the order of the code
ImageCalls(save) ==
  IF ~save.image.present /\ save.existing
    THEN <<"deleteImage", "deleteFile">>
  ELSE IF save.image.present /\ save.image.file
    THEN (IF save.existing THEN <<"deleteImage", "deleteFile">> ELSE <<>>)
           \o <<"createImage">>
  ELSE <<>>

\* a createImage that stores the image as the form uploaded it
CreatedImage_AsUploaded(save) ==
  [id |-> NewImageId(images),
   table_name |-> save.image.table_name, record_id |-> save.image.record_id,
   savedId |-> save.brokerId, uploadedFor |-> save.image.record_id]

\* createImage({ ...imageData, record_id: brokerId }); savedId and
\* uploadedFor keep the id the call saved and the record_id of the upload
CreatedImage(save) ==
  [id |-> NewImageId(images),
   table_name |-> save.image.table_name, record_id |-> save.brokerId,
   savedId |-> save.brokerId, uploadedFor |-> save.image.record_id]

\* a handleSubmit whose invalidations are the last statements of the try
\* block
AfterCatch_NoFinally(save) == "done"

\* where a call goes on after a failed remote call or the early return:
\* the catch block, then the finally block
AfterCatch(save) == "invalidateList"

\* handleFormSubmit of BrokerForm calls onSubmit(data, logoImage): the
\* page's handleSubmit runs with its default accountTypes, []
FormAccountTypes == <<>>

\* where a call goes on after the image calls: to the account types when
\* `brokerId && accountTypes.length > 0`, else to handleCloseModal and the
\* end of the try block
AfterImages(save) ==
  IF page = "brokers" /\ save.brokerId # 0 /\ save.accountTypes # <<>>
    THEN "accountTypes:delete"
    ELSE "invalidateList"

\* String.prototype.trim on the texts of the model: spaces go
trim(text) == SelectSeq(text, LAMBDA c : c # " ")

\* at => at.account_type && at.account_type.trim()
HasAccountType(at) ==
  /\ at.kind = "string"
  /\ at.text # <<>>
  /\ trim(at.text) # <<>>

\* accountTypesToInsert: the rows made of the entries that pass the filter
accountTypesToInsert(save) ==
  LET kept == SelectSeq(save.accountTypes, HasAccountType)
  IN  {[broker_id |-> save.brokerId, account_type |-> kept[k].text] :
         k \in 1..Len(kept)}

Remove(seq, i) == SubSeq(seq, 1, i - 1) \o SubSeq(seq, i + 1, Len(seq))

Outcome(save) ==
  IF save.failed THEN "failed"
  ELSE IF save.brokerId = 0 THEN "returnedEarly" ELSE "saved"

\* a call has run to its end
Finish(i, save) ==
  /\ saves' = Remove(saves, i)
  /\ finished' = [outcome |-> Outcome(save)]

\* a call moves on, or is over when nothing is left to do
Continue(i, save) ==
  IF save.pc = "done" THEN Finish(i, save)
  ELSE saves' = [saves EXCEPT ![i] = save] /\ UNCHANGED finished

\* the modal's form is submitted: handleSubmit of the hook validates and
\* calls handleFormSubmit, which starts the page's handleSubmit and returns
\* nothing.  The submit button is disabled while isValidating is true.
SubmitForm(slots, submitted) ==
  /\ isModalOpen
  /\ ~isValidating
  /\ inFlight = 0
  /\ Len(saves) + 1 \in slots
  /\ IF SubmitAborts
       THEN /\ errors' = validateForm(dataRef, schema).errors
            /\ isValidating' = FALSE
            /\ touched' = allTouched
            /\ last' = Did("handleSubmit:aborted")
            /\ UNCHANGED <<inFlight, saves>>
       ELSE /\ errors' = IF validateOnSubmit
                           THEN validateForm(dataRef, schema).errors
                           ELSE errors
            /\ isValidating' = TRUE
            /\ inFlight' = inFlight + 1
            /\ saves' = Append(saves, NewSave(submitted))
            /\ last' = Did("handleSubmit:onSubmit")
            /\ UNCHANGED touched
  /\ UNCHANGED <<data, dataRef, options>>
  /\ UNCHANGED listVars
  /\ UNCHANGED <<outerVars, pending, editingBroker, logoImage, finished, images, hidden>>

\* the awaited updateBroker / createBroker (updatePost / createPost)
\* settles.  outcome: the call failed; it resolved; it resolved with a
\* record that has no id.
SaveRecordSettled(i, outcome) ==
  LET save  == saves[i]
      isNew == save.editing = 0
      newId == CHOOSE id \in SaveRecordIds \ records :
                 \A other \in SaveRecordIds \ records : id <= other
      saved == [save EXCEPT !.trace = Append(@, IF isNew THEN "create"
                                                ELSE "update")]
      next  == IF outcome = "failed"
                 THEN [saved EXCEPT !.failed = TRUE, !.pc = AfterCatch(saved)]
               ELSE IF outcome = "noId"
                 THEN [saved EXCEPT !.pc = AfterCatch(saved)]
               ELSE LET withId == [saved EXCEPT !.brokerId =
                                     IF isNew THEN newId ELSE @]
                        todo == ImageCalls(withId)
                    IN  [withId EXCEPT !.todo = todo,
                                       !.pc = IF todo = <<>>
                                                THEN AfterImages(withId)
                                                ELSE "images"]
      closes == outcome = "ok" /\ next.pc = "invalidateList"
  IN  /\ save.pc = "record"
      /\ inFlight = 0
      /\ outcome = "noId" => isNew
      /\ (isNew /\ outcome # "failed") => SaveRecordIds \ records # {}
      /\ IF isNew /\ outcome # "failed"
           THEN /\ records' = records \cup {newId}
                /\ filterState' = handlePageChange(filterState, totalPages, 1)
           ELSE UNCHANGED <<records, filterState>>
      /\ isModalOpen' = (isModalOpen /\ ~closes)
      /\ editingBroker' = IF closes THEN 0 ELSE editingBroker
      /\ logoImage' = IF closes THEN NoImage ELSE logoImage
      /\ Continue(i, next)
      /\ last' = Did(IF next.pc = "done" THEN "save:finished" ELSE "save:step")
      /\ UNCHANGED <<formVars, page, inputFocused, confirmDialog>>
      /\ UNCHANGED <<outerVars, pending, images, hidden>>

\* the awaited deleteImage, deleteFile or createImage settles
SaveImageSettled(i, ok) ==
  LET save == saves[i]
      call == Head(save.todo)
      done == [save EXCEPT !.trace = Append(@, call), !.todo = Tail(@)]
      next == IF ~ok
                THEN [done EXCEPT !.failed = TRUE, !.pc = AfterCatch(done)]
              ELSE IF done.todo = <<>>
                THEN [done EXCEPT !.pc = AfterImages(done)]
              ELSE done
      closes == ok /\ next.pc = "invalidateList"
  IN  /\ save.pc = "images"
      /\ inFlight = 0
      /\ (ok /\ call = "createImage") => NewImageId(images) \in ImageIds
      /\ images' =
           IF ~ok \/ call = "deleteFile" THEN images
           ELSE IF call = "deleteImage"
             THEN {r \in images : r.id # save.existingId}
           ELSE images \cup {CreatedImage(save)}
      /\ isModalOpen' = (isModalOpen /\ ~closes)
      /\ editingBroker' = IF closes THEN 0 ELSE editingBroker
      /\ logoImage' = IF closes THEN NoImage ELSE logoImage
      /\ Continue(i, next)
      /\ last' = Did(IF next.pc = "done" THEN "save:finished" ELSE "save:step")
      /\ UNCHANGED <<formVars, page, records, filterState, inputFocused,
                     confirmDialog>>
      /\ UNCHANGED <<outerVars, pending, hidden>>

\* the awaited delete or insert on broker_account_types settles.  The
\* result of the delete is not looked at; the error of the insert is
\* thrown.
SaveAccountTypesSettled(i, ok) ==
  LET save     == saves[i]
      deleting == save.pc = "accountTypes:delete"
      toInsert == accountTypesToInsert(save)
      done     == [save EXCEPT !.trace = Append(@, IF deleting
                                                    THEN "deleteAccountTypes"
                                                    ELSE "insertAccountTypes")]
      next     == IF deleting
                    THEN [done EXCEPT !.pc = IF toInsert = {}
                                               THEN "invalidateList"
                                               ELSE "accountTypes:insert"]
                  ELSE IF ok THEN [done EXCEPT !.pc = "invalidateList"]
                  ELSE [done EXCEPT !.failed = TRUE, !.pc = AfterCatch(done)]
      closes   == ~next.failed /\ next.pc = "invalidateList"
  IN  /\ save.pc \in {"accountTypes:delete", "accountTypes:insert"}
      /\ inFlight = 0
      /\ stored' =
           IF ~ok THEN stored
           ELSE IF deleting
             THEN {r \in stored : r.broker_id # save.brokerId}
           ELSE stored \cup toInsert
      /\ isModalOpen' = (isModalOpen /\ ~closes)
      /\ editingBroker' = IF closes THEN 0 ELSE editingBroker
      /\ logoImage' = IF closes THEN NoImage ELSE logoImage
      /\ Continue(i, next)
      /\ last' = Did(IF next.pc = "done" THEN "save:finished" ELSE "save:step")
      /\ UNCHANGED <<formVars, page, records, filterState, inputFocused,
                     confirmDialog>>
      /\ UNCHANGED <<tables, loaded, user, view, called, pending, images,
                      hidden>>

\* the finally block: the awaited invalidation of the list cache, then of
\* the images cache, settles
SaveInvalidated(i, fetched) ==
  LET save == saves[i]
      next == IF save.pc = "invalidateList"
                THEN [save EXCEPT !.trace = Append(@, "invalidate:list"),
                                  !.pc = "invalidateImages"]
                ELSE [save EXCEPT !.trace = Append(@, "invalidate:images"),
                                  !.pc = "done"]
  IN  /\ save.pc \in {"invalidateList", "invalidateImages"}
      /\ inFlight = 0
      /\ save.pc = "invalidateList" => fetched
      /\ loaded' = IF save.pc = "invalidateImages"
                     THEN FetchedImages(images, fetched)
                     ELSE loaded
      /\ Continue(i, next)
      /\ last' = Did(IF next.pc = "done" THEN "save:finished" ELSE "save:step")
      /\ UNCHANGED <<formVars, listVars, remoteVars, user, view, called>>
      /\ UNCHANGED <<pending, editingBroker, logoImage, images, hidden>>

\* the edit button of a row: the modal opens on the record, and the form's
\* effect shows the record's image
handleEdit(id) ==
  /\ PageIdle
  /\ editingBroker' = IF LoginRequired THEN editingBroker ELSE id
  /\ isModalOpen' = ~LoginRequired
  /\ logoImage' = IF LoginRequired THEN logoImage ELSE ExistingImage(id)
  /\ last' = Did(IF LoginRequired THEN "loginRequired" ELSE "other")
  /\ UNCHANGED <<formVars, page, records, filterState, inputFocused,
                 confirmDialog>>
  /\ UNCHANGED <<outerVars, pending, saves, finished, images, hidden>>

\* the form's image input: an upload, or the image is taken away
handleLogoUpload(uploaded) ==
  /\ isModalOpen
  /\ ~isValidating
  /\ inFlight = 0
  /\ logoImage' = IF uploaded THEN UploadedImage
                  ELSE [NoImage EXCEPT !.shown = logoImage.shown]
  /\ last' = Did("other")
  /\ UNCHANGED <<formVars, listVars>>
  /\ UNCHANGED <<outerVars, pending, editingBroker, saves, finished, images, hidden>>

\* the visibility switch of a row of the Brokers table: the handler awaits
\* updateBroker outside any try block, so a failure leaves the handler
handleToggleVisible(id, ok) ==
  /\ page = "brokers"
  /\ PageIdle
  /\ hidden' = IF ~ok THEN hidden
               ELSE IF id \in hidden THEN hidden \ {id}
               ELSE hidden \cup {id}
  /\ last' = Did(IF ok THEN "toggle:ok" ELSE "toggle:rejected")
  /\ UNCHANGED <<formVars, listVars>>
  /\ UNCHANGED <<outerVars, pending, editingBroker, logoImage, saves, finished, images>>

InitSave ==
  /\ page \in Pages
  /\ records = {1}
  /\ filterState = DefaultFilterState
  /\ inputFocused = FALSE
  /\ isModalOpen = FALSE
  /\ confirmDialog = ClosedDialog
  /\ data = [name |-> Str(2), description |-> Str(2), note |-> Str(1)]
  /\ dataRef = data
  /\ errors = EmptyObject
  /\ touched = EmptyObject
  /\ isValidating = FALSE
  /\ options = Options(TRUE, FALSE, TRUE)
  /\ inFlight = 0
  /\ pending = <<>>
  /\ editingBroker = 0
  /\ logoImage = NoImage
  /\ saves = <<>>
  /\ finished = NoSave
  /\ images \in {{}, {[id |-> 1, table_name |-> page, record_id |-> 1,
                       savedId |-> 1, uploadedFor |-> 1]}}
  /\ hidden = {}
  /\ tables = NoRows
  /\ stored = {[broker_id |-> 1, account_type |-> <<"o">>]}
  /\ \E fetched \in BOOLEAN : loaded = FetchedImages(images, fetched)
  /\ user = TRUE
  /\ view = NoView
  /\ called = NoCall
  /\ last = Did("init")

NextSave ==
  \/ OpenCreate
  \/ \E id \in VisibleRows : handleEdit(id)
  \/ handleCloseModal
  \/ \E uploaded \in BOOLEAN : handleLogoUpload(uploaded)
  \/ SubmitForm(OneSave, FormAccountTypes)
  \/ SubmitSettled
  \/ \E i \in 1..Len(saves) :
       \E outcome \in {"failed", "ok", "noId"} : SaveRecordSettled(i, outcome)
  \/ \E i \in 1..Len(saves) : \E ok \in BOOLEAN : SaveImageSettled(i, ok)
  \/ \E i \in 1..Len(saves) : \E fetched \in BOOLEAN :
       SaveInvalidated(i, fetched)

SpecSave == InitSave /\ [][NextSave]_vars

(***************************************************************************)
(* The submit button of BrokerForm while the Brokers page saves a new      *)
(* broker: the form stays open until the save has succeeded, and a second  *)
(* call of handleSubmit may start while the first is under way.            *)
(***************************************************************************)
InitSubmit == InitSave /\ page = "brokers" /\ images = {}

NextSubmit ==
  \/ OpenCreate
  \/ handleCloseModal
  \/ SubmitForm(TwoSaves, FormAccountTypes)
  \/ SubmitSettled
  \/ \E i \in 1..Len(saves) :
       \E outcome \in {"failed", "ok", "noId"} : SaveRecordSettled(i, outcome)
  \/ \E i \in 1..Len(saves) : \E fetched \in BOOLEAN :
       SaveInvalidated(i, fetched)

SpecSubmit == InitSubmit /\ [][NextSubmit]_vars

(***************************************************************************)
(* The account types of a broker.  The page's handleSubmit takes the       *)
(* entries to store as its third argument.                                 *)
(***************************************************************************)
\* account_type of a submitted entry: missing, empty, blank, or a name
AccountTypeValues ==
  {JsUndefined, JsString(<<>>), JsString(<<" ">>), JsString(<<"e">>)}

\* most entries of a submitted list
MaxAccountTypes == 1

\* the lists handleSubmit may be called with
AccountTypeLists ==
  UNION {[1..n -> AccountTypeValues] : n \in 0..MaxAccountTypes}

InitAccountTypes == InitSubmit

NextAccountTypes ==
  \/ OpenCreate
  \/ \E id \in VisibleRows : handleEdit(id)
  \/ handleCloseModal
  \/ \E submitted \in AccountTypeLists : SubmitForm(OneSave, submitted)
  \/ SubmitSettled
  \/ \E i \in 1..Len(saves) :
       \E outcome \in {"failed", "ok", "noId"} : SaveRecordSettled(i, outcome)
  \/ \E i \in 1..Len(saves) : \E ok \in BOOLEAN :
       SaveAccountTypesSettled(i, ok)
  \/ \E i \in 1..Len(saves) : SaveInvalidated(i, TRUE)

SpecAccountTypes == InitAccountTypes /\ [][NextAccountTypes]_vars

(***************************************************************************)
(* The Posts page and the session.  The page reads user from the auth      *)
(* store; App mounts every page of the dashboard inside ProtectedRoute,    *)
(* so the end of the session takes the page, its modal and its dialog off  *)
(* the screen, and the page starts afresh after the next login.            *)
(***************************************************************************)
\* the session ends: the auth store's user becomes null
SignOut ==
  /\ user
  /\ user' = FALSE
  /\ isModalOpen' = FALSE
  /\ editingBroker' = 0
  /\ logoImage' = NoImage
  /\ confirmDialog' = ClosedDialog
  /\ last' = Did("signOut")
  /\ UNCHANGED <<formVars, page, records, filterState, inputFocused>>
  /\ UNCHANGED <<remoteVars, loaded, view, called, pending, saves, finished,
               images, hidden>>

\* a user signs in
SignIn ==
  /\ ~user
  /\ user' = TRUE
  /\ last' = Did("signIn")
  /\ UNCHANGED <<formVars, listVars, flowVars, remoteVars, loaded, view,
               called>>

InitSession == InitSave /\ page = "posts" /\ images = {}

NextSession ==
  \/ SignOut
  \/ SignIn
  \/ OpenCreate
  \/ \E id \in VisibleRows : handleEdit(id)
  \/ handleCloseModal
  \/ SubmitForm(OneSave, FormAccountTypes)
  \/ SubmitSettled
  \/ \E i \in 1..Len(saves) :
       \E outcome \in {"failed", "ok", "noId"} : SaveRecordSettled(i, outcome)
  \/ \E i \in 1..Len(saves) : SaveInvalidated(i, TRUE)
  \/ \E id \in VisibleRows : handleDelete(id)
  \/ handleCancelDelete
  \/ handleConfirmDelete
  \/ \E ok \in BOOLEAN : DeleteSettled(ok)

SpecSession == InitSession /\ [][NextSession]_vars

(***************************************************************************)
(* The page handlers that await a remote call: the save (as one step, with *)
(* the list refresh that follows it), the delete confirmation and the      *)
(* visibility switch.                                                      *)
(***************************************************************************)
NextHandlers ==
  \/ OpenCreate
  \/ handleCloseModal
  \/ \E id \in RecordIds :
       \E outcome \in {"createFailed", "createdOnly", "saved"} :
         SubmitCreate(id, outcome)
  \/ \E id \in VisibleRows : \E ok \in BOOLEAN : handleToggleVisible(id, ok)
  \/ \E id \in VisibleRows : handleDelete(id)
  \/ handleCancelDelete
  \/ handleConfirmDelete
  \/ \E ok \in BOOLEAN : DeleteSettled(ok)

SpecHandlers == InitList /\ [][NextHandlers]_vars

(***************************************************************************)
(* The remote database (supabase/migrations/002_permission_security.sql).  *)
(* brokers, posts, products and users each carry a BEFORE DELETE row       *)
(* trigger that runs handle_record_deletion_cascade_to_images.  The images *)
(* table has no foreign key to its owners: its rows name them by           *)
(* table_name and record_id.                                               *)
(***************************************************************************)
\* the ids of the rows of a table; an id is never given to a second row
RowIds == {1, 2}

\* the rows the database starts with: two brokers and two posts, which
\* share their ids across the tables, one product and one user
InitialRows ==
  [t \in CascadingTables |->
     IF t \in {"brokers", "posts"} THEN RowIds ELSE {1}]

\* a row of images as the database holds it
ImageRow(t, id) ==
  [id |-> id, table_name |-> t, record_id |-> id, savedId |-> id,
   uploadedFor |-> id]

\* the body of handle_record_deletion_cascade_to_images for the row OLD of
\* TG_TABLE_NAME: the images table after DELETE FROM public.images WHERE
\* record_id = OLD.id AND table_name = bucket_name
CascadeToImages(imgs, TG_TABLE_NAME, OLD) ==
  LET bucket_name == TG_TABLE_NAME
  IN  {i \in imgs : ~(i.record_id = OLD /\ i.table_name = bucket_name)}

\* DELETE FROM <t> WHERE id = <id>.  The trigger runs before the row goes.
\* raised: a statement of the trigger's block raised an error.  The block
\* has an EXCEPTION section, so what it did is rolled back, WHEN OTHERS logs
\* a warning and returns OLD, and the row is deleted all the same.
DeleteRow(t, id, raised) ==
  /\ id \in tables[t]
  /\ images' = IF raised THEN images ELSE CascadeToImages(images, t, id)
  /\ tables' = [tables EXCEPT ![t] = @ \ {id}]
  /\ last' = [op    |-> IF raised THEN "deleteRow:raised" ELSE "deleteRow:ok",
              from  |-> id,
              field |-> t]
  /\ UNCHANGED <<formVars, listVars, loaded, stored, user, view, called>>
  /\ UNCHANGED <<pending, editingBroker, logoImage, saves, finished, hidden>>

\* INSERT INTO images: the application stores an image of a saved record
InsertImage(t, id) ==
  /\ id \in tables[t]
  /\ ~\E i \in images : i.table_name = t /\ i.record_id = id
  /\ images' = images \cup {ImageRow(t, id)}
  /\ last' = [op |-> "insertImage", from |-> id, field |-> t]
  /\ UNCHANGED <<formVars, listVars, outerVars>>
  /\ UNCHANGED <<pending, editingBroker, logoImage, saves, finished, hidden>>

InitDatabase ==
  /\ page = "brokers"
  /\ records = {}
  /\ filterState = DefaultFilterState
  /\ inputFocused = FALSE
  /\ isModalOpen = FALSE
  /\ confirmDialog = ClosedDialog
  /\ data = FormInitialData
  /\ dataRef = FormInitialData
  /\ errors = EmptyObject
  /\ touched = EmptyObject
  /\ isValidating = FALSE
  /\ options = Options(TRUE, FALSE, TRUE)
  /\ inFlight = 0
  /\ pending = <<>>
  /\ editingBroker = 0
  /\ logoImage = NoImage
  /\ saves = <<>>
  /\ finished = NoSave
  /\ hidden = {}
  /\ tables = InitialRows
  /\ stored = {}
  /\ loaded = {}
  /\ user = TRUE
  /\ view = NoView
  /\ called = NoCall
  /\ images = {}
  /\ last = Did("init")

NextDatabase ==
  \/ \E t \in CascadingTables : \E id \in RowIds : InsertImage(t, id)
  \/ \E t \in CascadingTables : \E id \in RowIds :
       \E raised \in BOOLEAN : DeleteRow(t, id, raised)

SpecDatabase == InitDatabase /\ [][NextDatabase]_vars

(***************************************************************************)
(* The animated modals: ImageUploadModal (part_002) and PostViewModal.     *)
(* Both keep isVisible / isAnimating next to the isOpen prop and drive     *)
(* them with setTimeout callbacks that are never cleared.                  *)
(***************************************************************************)
Components == {"ImageUploadModal", "PostViewModal"}

\* the delays of the setTimeout calls, in milliseconds
AnimateDelay == 10
HideDelay == 200

\* at most this many setTimeout callbacks are pending at a time
MaxTimers == 2

\* a pending setTimeout callback; `live` is false once the component that
\* set it has been unmounted (its state setters then do nothing)
Timer(kind) == [kind |-> kind, live |-> TRUE]

Delay(timer) == IF timer.kind = "animateIn" THEN AnimateDelay ELSE HideDelay

\* timers fire in the order of their due times: a timer set earlier with
\* the same or a shorter delay is due first
MayFire(timers, k) ==
  \A j \in 1..(k - 1) : Delay(timers[j]) > Delay(timers[k])

WithoutTimer(timers, k) ==
  [j \in 1..(Len(timers) - 1) |-> IF j < k THEN timers[j] ELSE timers[j + 1]]

\* the component returns null unless isOpen and isVisible
Rendered(v) == v.isOpen /\ v.isVisible

\* useEffect on [isOpen], after isOpen has become true / false
OpenEffect(v) ==
  [v EXCEPT !.isVisible = TRUE, !.timers = Append(@, Timer("animateIn"))]

CloseEffect(v) ==
  [v EXCEPT !.isAnimating = FALSE, !.timers = Append(@, Timer("hide"))]

resetModal(v) ==
  [v EXCEPT !.preview = FALSE, !.altText = "", !.selectedFile = FALSE]

\* Posts renders PostViewModal only while viewingPost is set: closing it
\* unmounts the component, and its pending timers find no state to set
Unmounted(v) ==
  [v EXCEPT !.isOpen = FALSE, !.isVisible = FALSE, !.isAnimating = FALSE,
            !.timers = [j \in DOMAIN @ |-> [@[j] EXCEPT !.live = FALSE]]]

\* onClose of the parent: Posts sets viewingPost to null; the parent of
\* ImageUploadModal sets isOpen to false and keeps the modal mounted
onClose(v) ==
  IF ~v.isOpen THEN v
  ELSE IF v.component = "PostViewModal" THEN Unmounted(v)
  ELSE CloseEffect([v EXCEPT !.isOpen = FALSE])

\* the parent opens the modal: isOpen becomes true
OpenView ==
  /\ ~view.isOpen
  /\ Len(view.timers) < MaxTimers
  /\ view' = OpenEffect([view EXCEPT !.isOpen = TRUE])
  /\ last' = Did("openView")
  /\ UNCHANGED <<formVars, listVars, flowVars, remoteVars, loaded, user,
               called>>

\* handleFileSelect (file input or drop): an image becomes the selected
\* file and a FileReader starts reading the preview
handleFileSelect(isImage) ==
  /\ view.component = "ImageUploadModal"
  /\ Rendered(view)
  /\ view' = IF isImage
             THEN [view EXCEPT !.selectedFile = TRUE, !.reading = TRUE]
             ELSE view
  /\ last' = Did("handleFileSelect")
  /\ UNCHANGED <<formVars, listVars, flowVars, remoteVars, loaded, user,
               called>>

\* reader.onload: the preview is set
ReaderLoaded ==
  /\ view.reading
  /\ view' = [view EXCEPT !.reading = FALSE, !.preview = TRUE]
  /\ last' = Did("reader.onload")
  /\ UNCHANGED <<formVars, listVars, flowVars, remoteVars, loaded, user,
               called>>

\* the alt text input, shown with the preview and disabled while uploading
ChangeAltText ==
  /\ Rendered(view)
  /\ view.preview
  /\ ~view.isUploading
  /\ view' = [view EXCEPT !.altText = "a"]
  /\ last' = Did("setAltText")
  /\ UNCHANGED <<formVars, listVars, flowVars, remoteVars, loaded, user,
               called>>

\* the remove button on the preview, not rendered while uploading
RemovePreview ==
  /\ Rendered(view)
  /\ view.preview
  /\ ~view.isUploading
  /\ view' = resetModal(view)
  /\ last' = Did("removePreview")
  /\ UNCHANGED <<formVars, listVars, flowVars, remoteVars, loaded, user,
               called>>

\* handleUpload up to its first await: uploadFile starts and useFileUpload
\* reports isUploading (the button is disabled without a file and while
\* uploading)
handleUpload ==
  /\ view.component = "ImageUploadModal"
  /\ Rendered(view)
  /\ view.selectedFile
  /\ ~view.isUploading
  /\ view.upload = "idle"
  /\ view' = [view EXCEPT !.isUploading = TRUE, !.upload = "uploadFile"]
  /\ last' = Did("handleUpload")
  /\ UNCHANGED <<formVars, listVars, flowVars, remoteVars, loaded, user,
               called>>

\* the end of handleUpload's try block: onImageInsert, resetModal, onClose
UploadDone(v) == onClose(resetModal([v EXCEPT !.upload = "idle"]))

\* uploadFile settles: the upload is over; handleUpload goes on to
\* createImageFromUpload (with createImageRecord), to its end, or to catch
UploadSettled(ok, createImageRecord) ==
  /\ view.upload = "uploadFile"
  /\ LET v == [view EXCEPT !.isUploading = FALSE]
     IN  view' = IF ~ok THEN [v EXCEPT !.upload = "idle"]
                 ELSE IF createImageRecord
                      THEN [v EXCEPT !.upload = "createImage"]
                      ELSE UploadDone(v)
  /\ last' = Did(IF ok /\ ~createImageRecord THEN "handleUpload:done"
                 ELSE "handleUpload:settled")
  /\ UNCHANGED <<formVars, listVars, flowVars, remoteVars, loaded, user,
               called>>

\* createImageFromUpload settles
CreateImageSettled(ok) ==
  /\ view.upload = "createImage"
  /\ view' = IF ok THEN UploadDone(view) ELSE [view EXCEPT !.upload = "idle"]
  /\ last' = Did(IF ok THEN "handleUpload:done" ELSE "handleUpload:settled")
  /\ UNCHANGED <<formVars, listVars, flowVars, remoteVars, loaded, user,
               called>>

\* handleClose, called by the Escape listener (registered while isOpen), by
\* a click on the backdrop, or by the close / cancel buttons (disabled
\* while uploading): ImageUploadModal refuses while isUploading, otherwise
\* the modal fades out and a timer will reset and close it
handleClose(via) ==
  /\ view.isOpen
  /\ via # "escape" => view.isVisible
  /\ via = "button" => ~view.isUploading
  /\ IF view.component = "ImageUploadModal" /\ view.isUploading
     THEN /\ view' = view
          /\ last' = DidTo("handleClose:refused", via)
     ELSE /\ Len(view.timers) < MaxTimers
          /\ view' = [view EXCEPT !.isAnimating = FALSE,
                                  !.timers = Append(@, Timer("close"))]
          /\ last' = DidTo("handleClose", via)
  /\ UNCHANGED <<formVars, listVars, flowVars, remoteVars, loaded, user,
               called>>

\* what a setTimeout callback does to the component and its parent
Fired(v, timer) ==
  IF timer.kind = "animateIn"
  THEN IF timer.live THEN [v EXCEPT !.isAnimating = TRUE] ELSE v
  ELSE IF timer.kind = "hide"
  THEN IF timer.live THEN [v EXCEPT !.isVisible = FALSE] ELSE v
  ELSE onClose(IF ~timer.live THEN v
               ELSE IF v.component = "ImageUploadModal"
                    THEN resetModal([v EXCEPT !.isVisible = FALSE])
                    ELSE [v EXCEPT !.isVisible = FALSE])

\* a pending timer fires
TimerFires(k) ==
  /\ k \in 1..Len(view.timers)
  /\ MayFire(view.timers, k)
  /\ view' = Fired([view EXCEPT !.timers = WithoutTimer(@, k)],
                   view.timers[k])
  /\ last' = DidTo("timer", view.timers[k].kind)
  /\ UNCHANGED <<formVars, listVars, flowVars, remoteVars, loaded, user,
               called>>

InitView ==
  /\ page = "posts"
  /\ records = {}
  /\ filterState = DefaultFilterState
  /\ inputFocused = FALSE
  /\ isModalOpen = FALSE
  /\ confirmDialog = ClosedDialog
  /\ data = FormInitialData
  /\ dataRef = FormInitialData
  /\ errors = EmptyObject
  /\ touched = EmptyObject
  /\ isValidating = FALSE
  /\ options = Options(TRUE, FALSE, TRUE)
  /\ inFlight = 0
  /\ pending = <<>>
  /\ editingBroker = 0
  /\ logoImage = NoImage
  /\ saves = <<>>
  /\ finished = NoSave
  /\ images = {}
  /\ hidden = {}
  /\ tables = NoRows
  /\ stored = {}
  /\ loaded = {}
  /\ user = TRUE
  /\ \E c \in Components : view = [NoView EXCEPT !.component = c]
  /\ called = NoCall
  /\ last = Did("init")

NextView ==
  \/ OpenView
  \/ \E isImage \in BOOLEAN : handleFileSelect(isImage)
  \/ ReaderLoaded
  \/ ChangeAltText
  \/ RemovePreview
  \/ handleUpload
  \/ \E ok, createImageRecord \in BOOLEAN : UploadSettled(ok, createImageRecord)
  \/ \E ok \in BOOLEAN : CreateImageSettled(ok)
  \/ \E via \in {"escape", "backdrop", "button"} : handleClose(via)
  \/ \E k \in 1..MaxTimers : TimerFires(k)

SpecView == InitView /\ [][NextView]_vars

(***************************************************************************)
(* Claims about the form-validation hook (checked under SpecForm)          *)
(***************************************************************************)
\* an entry of a JavaScript object is the same in two objects
SameEntry(a, b, key) ==
  /\ key \in DOMAIN a <=> key \in DOMAIN b
  /\ key \in DOMAIN a => a[key] = b[key]

\* C1: with validateOnSubmit enabled, handleSubmit calls onSubmit only if
\* the whole-schema validation of the current data passes; when it fails,
\* onSubmit is not called, the error map becomes the validation errors and
\* isValid is false.
C1_SubmitOnlyWhenValid ==
  [][(handleSubmit /\ validateOnSubmit) =>
        /\ (last'.op = "handleSubmit:onSubmit" =>
              validateForm(data, schema).isValid)
        /\ (~validateForm(data, schema).isValid =>
              /\ last'.op = "handleSubmit:aborted"
              /\ inFlight' = inFlight
              /\ errors' = validateForm(data, schema).errors
              /\ ~isValid')]_vars

\* C1 witness: the scenario {name: required, minLength 2} with name "":
\* the submit was aborted and left the error of name.
C1_Witness ==
  /\ last.op = "handleSubmit:aborted"
  /\ validateOnSubmit
  /\ data["name"] = Str(0)
  /\ "name" \in DOMAIN errors
  /\ errors["name"] = schema["name"].message
  /\ ~isValid
  /\ inFlight = 0

\* C2: when handleSubmit fails the whole-schema validation, every field
\* named in the schema is marked touched in the resulting state.
C2_FailedSubmitTouchesSchema ==
  [][(handleSubmit /\ validateOnSubmit
        /\ ~validateForm(data, schema).isValid) =>
        \A f \in SchemaFields : f \in DOMAIN touched' /\ touched'[f] = TRUE]_vars

\* C2 witness: a failed submit in which only name failed, and description
\* is touched as well.
C2_Witness ==
  /\ last.op = "handleSubmit:aborted"
  /\ DOMAIN errors = {"name"}
  /\ \A f \in SchemaFields : f \in DOMAIN touched /\ touched[f] = TRUE

\* C3: updateField(f, v) stores v in data[f] and removes any existing error
\* of f: an error of f is present afterwards only if validateOnChange is
\* enabled and v fails f's rule; with validateOnChange disabled errors[f]
\* is absent afterwards and the errors of the other fields are unchanged.
C3_UpdateFieldClearsError ==
  [][\A f \in Fields : \A v \in FieldValues(f) :
        updateField(f, v) =>
          /\ data'[f] = v
          /\ (f \in DOMAIN errors' =>
                /\ validateOnChange
                /\ f \in SchemaFields
                /\ ~RuleHolds(v, schema[f]))
          /\ (~validateOnChange =>
                /\ f \notin DOMAIN errors'
                /\ \A g \in Fields \ {f} : SameEntry(errors', errors, g))]_vars

\* C4: handleBlur(f) validates f (setting or removing errors[f]) only if
\* validateOnBlur is enabled; with validateOnBlur disabled the error map is
\* unchanged; in both cases only f's entry of the error map can change, and
\* f is marked touched.
C4_BlurValidatesOnlyIfEnabled ==
  [][last'.op = "handleBlur" => \A f \in Fields :
        handleBlur(f) =>
          /\ f \in DOMAIN touched' /\ touched'[f] = TRUE
          /\ \A g \in Fields \ {f} : SameEntry(errors', errors, g)
          /\ (~validateOnBlur => errors' = errors)
          /\ (validateOnBlur /\ f \in SchemaFields =>
                (f \in DOMAIN errors' <=> ~RuleHolds(data[f], schema[f])))]_vars

\* C4 witness: a blur with validateOnBlur disabled marked name touched and
\* left the error map without an entry for the invalid name.
C4_Witness ==
  /\ last.op = "handleBlur"
  /\ ~validateOnBlur
  /\ "name" \in DOMAIN touched
  /\ ~RuleHolds(data["name"], schema["name"])
  /\ "name" \notin DOMAIN errors

\* C11: in every reachable state of the hook, isValid is true exactly when
\* the error map has no entries: no field has an entry, whatever its text.
C11_IsValidIffNoErrors ==
  /\ DOMAIN errors \subseteq Fields
  /\ isValid <=> \A f \in Fields : f \notin DOMAIN errors

\* the error map holds one entry, with an empty message, and the form is
\* not valid
C11_Witness ==
  /\ DOMAIN errors = {"note"}
  /\ errors["note"] = ""
  /\ ~isValid

\* C14: a field the schema has no rule for is always valid: validateField
\* returns isValid = true for it, and no updateField (whatever
\* validateOnChange says), handleBlur (whatever validateOnBlur says) or
\* validateField adds or changes an error entry for it.
C14_FieldWithoutRuleIsValid ==
  [][\A f \in Fields \ SchemaFields :
       /\ validateFieldResult(f).isValid
       /\ (f \in DOMAIN errors' /\ ~SameEntry(errors, errors', f)) =>
            /\ ~handleBlur(f)
            /\ ~validateFieldFn(f)
            /\ \A v \in FieldValues(f) : ~updateField(f, v)]_vars

C14_Witness ==
  /\ last.op = "handleBlur"
  /\ validateOnBlur
  /\ DOMAIN touched = {"note"}
  /\ "note" \notin SchemaFields
  /\ "note" \notin DOMAIN errors
  /\ validateFieldResult("note").isValid

(***************************************************************************)
(* Claims about the list pages (checked under SpecList and SpecPaging)     *)
(***************************************************************************)
\* C5: in every state of the Brokers and Posts pages reached by page
\* navigation, search, filter, page-size changes, record creation and
\* record deletion, 1 <= currentPage <= totalPages.
C5_CurrentPageInRange ==
  /\ 1 <= currentPage
  /\ currentPage <= totalPages

\* a delete emptied the last page and the page stepped back onto the new
\* last page
C5_Witness ==
  /\ last.op = "delete:ok:pageBack"
  /\ last.from > 1
  /\ currentPage = last.from - 1
  /\ currentPage = totalPages
  /\ ~confirmDialog.isOpen

\* a text that is an integer numeral: spaces, an optional sign, then
\* decimal digits to the end of the text
IsInteger(text) ==
  LET i0 == SkipSpaces(text, 1)
      i1 == IF i0 <= Len(text) /\ text[i0] \in {"-", "+"} THEN i0 + 1 ELSE i0
  IN  /\ i1 <= Len(text)
      /\ \A i \in i1..Len(text) : DigitValue(text[i]) < 10

RECURSIVE DecimalValue(_)
DecimalValue(digits) ==
  IF Len(digits) = 0 THEN 0
  ELSE 10 * DecimalValue(SubSeq(digits, 1, Len(digits) - 1))
       + DigitValue(digits[Len(digits)])

IntegerValue(text) ==
  LET i0  == SkipSpaces(text, 1)
      neg == text[i0] = "-"
      i1  == IF text[i0] \in {"-", "+"} THEN i0 + 1 ELSE i0
      v   == DecimalValue(SubSeq(text, i1, Len(text)))
  IN  IF neg THEN 0 - v ELSE v

\* a text that is no numeral of any kind: empty, or holding a character
\* that no decimal numeral holds
NotANumber(text) ==
  \/ Len(text) = 0
  \/ \E i \in 1..Len(text) :
       DigitValue(text[i]) >= 10 /\ text[i] \notin {"-", "+", " ", "."}

\* C6: committing the page input (blur or Enter) with a text that is not a
\* number in [1, totalPages] -- 0, a number above totalPages, non-numeric
\* text -- leaves currentPage unchanged and resets the input text to the
\* current page; currentPage changes only to an in-range number, and to
\* exactly that number.
C6_OnlyInRangeNumbersNavigate ==
  [][(PageInputBlur \/ PageInputEnter) =>
       LET text == filterState.pageInputValue
       IN  /\ (\/ NotANumber(text)
               \/ IsInteger(text) /\ IntegerValue(text) \notin 1..totalPages)
                => /\ filterState'.currentPage = currentPage
                   /\ filterState'.pageInputValue = toString(currentPage)
           /\ filterState'.currentPage # currentPage
                => /\ IsInteger(text)
                   /\ IntegerValue(text) \in 1..totalPages
                   /\ filterState'.currentPage = IntegerValue(text)]_vars

\* C7: totalPages = max(1, ceil(filteredCount / P)): it is at least 1, it
\* is 1 for an empty list, and otherwise it is the least number of pages of
\* P records that hold the list; 25 records with P = 10 make 3 pages, the
\* third holding 5 records.
C7_TotalPagesIsCeiling ==
  LET n == Cardinality(Filtered(records, filterState))
      P == filterState.itemsPerPage
  IN  /\ totalPages >= 1
      /\ n = 0 => totalPages = 1
      /\ n > 0 => (totalPages - 1) * P < n /\ n <= totalPages * P
      /\ n = 25 /\ P = 10
           => /\ totalPages = 3
              /\ currentPage = 3 => Len(paginated) = 5

C7_Witness ==
  /\ Cardinality(Filtered(records, filterState)) = 25
  /\ filterState.itemsPerPage = 10
  /\ totalPages = 3
  /\ currentPage = 3
  /\ Len(paginated) = 5
  /\ last.op = "nextPage"

\* C8: changing the search term, the status filter or the tab sets
\* currentPage to 1, whatever the page was: in the state a SearchChange,
\* StatusFilterChange or TabChange step leaves, currentPage is 1.
C8_FilterChangeResetsPage ==
  last.op \in {"search", "statusFilter", "tab"} => currentPage = 1

\* the status filter was changed on a page after the first
C8_Witness ==
  /\ last.op = "statusFilter"
  /\ last.from > 1
  /\ filterState.filterStatus # "all"
  /\ currentPage = 1

\* C9: choosing a page size leaves the current page at 1, whatever the
\* page and the page size were: in the state an ItemsPerPageChange step
\* leaves, currentPage is 1 and the page input shows 1.
C9_PageSizeChangeResetsPage ==
  last.op = "itemsPerPage"
    => /\ currentPage = 1
       /\ filterState.pageInputValue = toString(1)

C9_Witness ==
  /\ last.op = "itemsPerPage"
  /\ last.from > 1
  /\ filterState.itemsPerPage = MaxPageSize
  /\ currentPage = 1

\* C10: handleSort on the current sort column keeps the column and flips
\* the direction; on another column it selects that column, ascending.
C10_SortTogglesOrSelects ==
  [][last'.op = "sort" => \A column \in SortColumns :
       Sort(column)
         => /\ filterState'.sortColumn = column
            /\ filterState.sortColumn = column
                 => /\ filterState.sortDirection = "asc"
                      => filterState'.sortDirection = "desc"
                    /\ filterState.sortDirection = "desc"
                      => filterState'.sortDirection = "asc"
            /\ filterState.sortColumn # column
                 => filterState'.sortDirection = "asc"]_vars

\* the name column was selected and then clicked again
C10_Witness ==
  /\ last.op = "sort"
  /\ filterState.sortColumn = "name"
  /\ filterState.sortDirection = "desc"

\* C20: after a successful deletion that empties the current page (the
\* deleted record was the only one shown on a page greater than 1) the
\* current page is the first page; after a failed deletion the current page
\* is the page the deletion started from.
C20_DeleteResetsToFirstPage ==
  /\ last.op = "delete:ok:pageBack" => currentPage = 1
  /\ last.op \in {"delete:failed", "delete:rejected"} =>
       currentPage = last.from

(***************************************************************************)
(* Claims about BrokerForm's instance of the hook (checked under           *)
(* SpecBrokerForm)                                                         *)
(***************************************************************************)
\* C12: with initial data supplied, isDirty is true exactly when the
\* current data is not deeply equal to the initial data.
C12_DirtyIffDataDiffers == isDirty <=> data # initialData

\* C13 as stated: given the empty text, the numeric change handler stores
\* undefined, and so does the change handler of BrokerForm's established_in.
C13_EmptyNumberIsUndefinedEverywhere ==
  /\ last.op = "handleChange:number:empty" => data[last.field] = JsUndefined
  /\ last.op = "handleEstablishedYearChange:empty" =>
       data["established_in"] = JsUndefined

\* C13, amended: given the empty text of a number input, the hook's
\* handleChange stores undefined (neither 0 nor NaN); BrokerForm's
\* established_in has a change handler of its own, which stores null
\* (neither 0 nor NaN, and not undefined).
C13_EmptyNumberIsUndefinedOrNull ==
  /\ last.op = "handleChange:number:empty" =>
       /\ data[last.field] = JsUndefined
       /\ data[last.field] \notin {JsNumber(0), JsNaN}
  /\ last.op = "handleEstablishedYearChange:empty" =>
       /\ data["established_in"] = JsNull
       /\ data["established_in"] \notin {JsNumber(0), JsNaN, JsUndefined}

C13_Witness ==
  /\ last.op = "handleChange:number:empty"
  /\ last.field = "established_in"
  /\ data["established_in"] = JsUndefined
  /\ EstablishedYearText(data["established_in"]) = <<>>

(***************************************************************************)
(* Claims about updateField calls between renders (checked under           *)
(* SpecBatch)                                                              *)
(***************************************************************************)
\* C15: the updateField calls made before a render are applied in call
\* order and none is lost: after the render every field named by a call
\* holds the value of the last call that named it, and every other field
\* holds the value it had.
C15_LastUpdateWins ==
  [][(pending # <<>> /\ pending' = <<>>) =>
       /\ DOMAIN data' = DOMAIN data
       /\ \A f \in Fields :
            LET calls == {i \in 1..Len(pending) : pending[i].field = f}
            IN  data'[f] =
                  IF calls = {} THEN data[f]
                  ELSE pending[CHOOSE i \in calls :
                                 \A j \in calls : j <= i].value]_vars

C15_Witness ==
  /\ last.op = "render:batch"
  /\ data["name"] = Str(1)
  /\ data["note"] = Str(1)
  /\ data["description"] = Str(0)

(***************************************************************************)
(* Claims about the pages' save, delete and visibility handlers (checked   *)
(* under SpecSave, SpecHandlers and SpecSubmit)                            *)
(***************************************************************************)
\* the remote calls of a save that write
RemoteWrites == {"create", "update", "deleteImage", "deleteFile",
                 "createImage"}

\* C16: every call of a page's handleSubmit, whether it saves, fails or
\* returns early, ends by invalidating the list cache and then the images
\* cache, and makes no remote write after the first invalidation.
C16_SaveEndsWithInvalidation ==
  [][\A i \in 1..Len(saves) :
       (Len(saves') < Len(saves) /\ saves' = Remove(saves, i)) =>
         LET t == saves[i].trace
         IN  /\ saves[i].pc = "invalidateImages"
             /\ last'.op = "save:finished"
             /\ finished'.outcome \in {"saved", "failed", "returnedEarly"}
             /\ Len(t) >= 2
             /\ t[Len(t)] = "invalidate:list"
             /\ \A k \in 1..(Len(t) - 1) : t[k] \in RemoteWrites]_vars

C16_Witness ==
  /\ last.op = "save:finished"
  /\ finished.outcome = "failed"
  /\ saves = <<>>

\* C17: no page handler that awaits a remote call (save, delete
\* confirmation, visibility switch) lets the call's failure out: the
\* handler's promise never rejects.
C17_HandlersCatchFailures ==
  last.op \notin {"delete:rejected", "toggle:rejected"}

\* C18: every row of the images table names its owner: its table is the
\* page's table and its record is the record saved by the call that created
\* the row, also when the record was new and had no id at the upload.
C18_ImagesNameTheirOwner ==
  \A r \in images :
    /\ r.table_name = page
    /\ r.record_id # 0
    /\ r.record_id = r.savedId

C18_Witness ==
  \E r \in images :
    /\ r.uploadedFor = 0
    /\ r.table_name = page
    /\ r.record_id \in records
    /\ r.record_id = r.savedId

\* C19: while a call of the Brokers page's handleSubmit started by the form
\* is under way, isValidating is true (the submit button is disabled), and
\* no second call is under way.
C19_SubmitDisabledWhileSaving ==
  /\ saves # <<>> => isValidating
  /\ Len(saves) <= 1

\* C24: on both list pages the delete-confirmation dialog is open exactly
\* when a target record is selected, and a delete is only running while the
\* dialog is open, whether deletions succeed, fail or are cancelled.
C24_DialogOpenIffTargetSelected ==
  /\ confirmDialog.isOpen <=> confirmDialog.id # 0
  /\ confirmDialog.isDeleting => confirmDialog.isOpen

\* a delete of the Posts page has failed: the dialog is still open on its
\* post
C24_Witness ==
  /\ last.op = "delete:failed"
  /\ confirmDialog.isOpen
  /\ confirmDialog.id # 0
  /\ ~confirmDialog.isDeleting

\* the logo (thumbnail) rows the database holds for a record of the page
LogosOf(id) == {r \in images : r.table_name = page /\ r.record_id = id}

\* C22: a successful save that brings a new logo (thumbnail) file for a
\* record that has a logo row leaves the record with exactly one logo row,
\* and a successful save of a record whose logo the form has taken away
\* leaves it with none.
C22_SaveLeavesOneLogo ==
  \A i \in 1..Len(saves) :
    LET save == saves[i]
    IN  (save.pc = "invalidateList" /\ ~save.failed /\ save.brokerId # 0
           /\ save.hadLogo) =>
          /\ (save.image.present /\ save.image.file) =>
               Cardinality(LogosOf(save.brokerId)) = 1
          /\ (~save.image.present /\ save.image.shown) =>
               Cardinality(LogosOf(save.brokerId)) = 0

\* C23: at the end of a successful save of a broker the account types
\* stored for it are exactly the submitted entries with a non-blank
\* account_type, and a failed insert makes the save fail without closing
\* the modal.
C23_StoredAccountTypesAreSubmitted ==
  /\ [](\A i \in 1..Len(saves) :
          LET save == saves[i]
          IN  (save.pc = "invalidateList" /\ ~save.failed
                 /\ save.brokerId # 0)
                => {r \in stored : r.broker_id = save.brokerId}
                     = accountTypesToInsert(save))
  /\ [][\A i \in 1..Len(saves) :
          (saves[i].pc = "accountTypes:insert" /\ Len(saves') = Len(saves)
             /\ saves'[i].pc # saves[i].pc /\ stored' = stored
             /\ ~accountTypesToInsert(saves[i]) \subseteq stored) =>
            /\ saves'[i].failed
            /\ isModalOpen' = isModalOpen]_vars

C21_DeletedRowLeavesNoImages ==
  last.op \in {"deleteRow:ok", "deleteRow:raised"} =>
    /\ last.from \notin tables[last.field]
    /\ ~\E i \in images :
         i.table_name = last.field /\ i.record_id = last.from

(***************************************************************************)
(* Claims about handlers called before the render (checked under SpecRef)  *)
(***************************************************************************)
\* C29: validation and submission use the field values written last: a
\* handleBlur(f) that follows updateField(f, v) validates v, and a
\* handleSubmit that follows it validates and passes to onSubmit data that
\* holds v, also when no render happened in between.
C29_HandlersReadWrittenValues ==
  [][/\ (last'.op = "handleBlur:call" /\ validateOnBlur) =>
          called'.read[called'.field] = WrittenData[called'.field]
     /\ last'.op = "handleSubmit:call" => called'.read = WrittenData]_vars

(***************************************************************************)
(* Claims about the pagination footer (checked under SpecList)             *)
(***************************************************************************)
\* C28: in every state of the Brokers and Posts pages the range shown by
\* 'showing rows' satisfies 1 <= startItem <= endItem <= total, and it
\* spans as many rows as the visible page holds, also with a search or a
\* filter and with an empty list.
C28_ShowingRowsMatchPage ==
  /\ 1 <= startItem(filterState)
  /\ startItem(filterState) <= endItem(records, filterState)
  /\ endItem(records, filterState) <= total(records)
  /\ endItem(records, filterState) - startItem(filterState) + 1
       = Len(Paginated(records, filterState))

(***************************************************************************)
(* Claims about the animated modals (checked under SpecView)               *)
(***************************************************************************)
\* C26: while an upload is in progress in the image upload modal, the modal
\* is not closed: no step taken during the upload invokes onClose or resets
\* the selected file, the preview or the alt text, whether closing was
\* requested by Escape, the backdrop or a button, before or during the
\* upload.
C26_NoCloseWhileUploading ==
  [][(view.component = "ImageUploadModal" /\ view.isUploading
        /\ view'.isUploading) =>
       /\ ~(last'.op = "timer" /\ last'.field = "close")
       /\ view.isOpen => view'.isOpen
       /\ view.selectedFile => view'.selectedFile
       /\ view.preview => view'.preview
       /\ view'.altText = view.altText]_vars

\* C27: in both modals, whenever isOpen is true and no animation timer is
\* pending, isVisible is true; closing and reopening within the hide delay
\* does not leave an open modal hidden.
C27_OpenModalIsVisible ==
  (view.isOpen /\ view.timers = <<>>) => view.isVisible

=============================================================================
